---- MODULE Spec2Model ----
(***************************************************************************)
(* A model of ansible_mitogen/connection.py: the derivation of connection  *)
(* specifications, the method registry, the via-chain stack resolver and    *)
(* the Connection object's connect / call / file-transfer / close           *)
(* life cycle against the multiplexer's ContextService and FileService.     *)
(*                                                                          *)
(* Representation of Python values:                                         *)
(*   - a text string is a sequence of lexemes (<<"r", "@", "b">> is the     *)
(*     string "r@b"); the lexeme "@" is the character the via parser splits *)
(*     on, " " the one the shell tokenizer splits on;                       *)
(*   - None is the one-lexeme sequence None, which is no text string;       *)
(*   - a list that stands where None may stand, and the keyword argument    *)
(*     of a service request, are tagged tuples;                             *)
(*   - an object reference (broker, router, context) is a tagged tuple;    *)
(*   - method and transport names, which are never None, are plain strings. *)
(***************************************************************************)
EXTENDS Integers, Sequences, FiniteSets, Bags, TLC

VARIABLES
    play_context,          \* self._play_context, fixed at construction
    transport,             \* self.transport, the plugin's class attribute
    ansible_ssh_timeout,   \* task-scoped fields set by on_action_run
    python_path,
    mitogen_via,
    mitogen_kind,
    inventory_hostname,
    host_vars,
    delegate_to_hostname,
    broker,                \* self.broker
    router,                \* self.router
    parent,                \* self.parent
    context,               \* self.context
    login_context,         \* self.login_context
    fork_context,          \* self.fork_context
    home_dir,              \* self.home_dir
    temp_dir,              \* self._temp_dir
    shutdown,              \* the brokers that were shut down and joined
    refs,                  \* ContextService: the bag of references it counts
    op,                    \* the last operation: its name, input and outcome
    sent,                  \* the requests the last operation sent, in order
    callers                \* the callers of the instance: where each is in
                           \* _connect, and whether two were in it at once

vars ==
    <<play_context, transport, ansible_ssh_timeout, python_path, mitogen_via,
      mitogen_kind, inventory_hostname, host_vars, delegate_to_hostname,
      broker, router, parent, context, login_context, fork_context, home_dir,
      temp_dir, shutdown, refs, op, sent, callers>>

taskVars ==
    <<ansible_ssh_timeout, python_path, mitogen_via, mitogen_kind,
      inventory_hostname, host_vars, delegate_to_hostname>>

\* What no operation of the Connection assigns: the fields fixed at
\* construction, and the callers, which move only between the steps of
\* _connect.
fixedVars ==
    <<play_context, transport, callers>>

(***************************************************************************)
(* Bounds of the model.                                                     *)
(***************************************************************************)
\* The number of brokers one Connection may create before the model stops
\* creating more.
MaxBrokers == 2

\* The number of handles the service hands out before the model stops
\* asking for more.
MaxHandles == 2

(***************************************************************************)
(* Python values.                                                           *)
(***************************************************************************)
None == <<"None">>

\* Python truthiness of a string-or-None value: None and '' are false.
Truthy(s) == s # None /\ s # <<>>

\* a or b
Or(a, b) == IF Truthy(a) THEN a ELSE b

Reverse(s) == [i \in 1..Len(s) |-> s[Len(s) + 1 - i]]

\* The positions of lexeme c in string s.
Positions(s, c) == {i \in 1..Len(s) : s[i] = c}

Max(S) == CHOOSE m \in S : \A n \in S : n <= m

\* s.rpartition(sep): <<head, sep, tail>> split on the last sep, or
\* <<'', '', s>> when s holds none.
rpartition(s, sep) ==
    IF Positions(s, sep) = {}
    THEN <<(<<>>), (<<>>), s>>
    ELSE LET k == Max(Positions(s, sep))
         IN  <<SubSeq(s, 1, k - 1), <<sep>>, SubSeq(s, k + 1, Len(s))>>

\* sep.join(parts), for a sequence of strings.
RECURSIVE join(_, _)
join(sep, parts) ==
    IF Len(parts) = 0 THEN <<>>
    ELSE IF Len(parts) = 1 THEN parts[1]
    ELSE parts[1] \o sep \o join(sep, Tail(parts))

\* ansible.utils.shlex.shlex_split(s), on strings without quoting: the
\* maximal runs of lexemes other than " ".
RECURSIVE shlex_split(_)
shlex_split(s) ==
    IF Len(s) = 0 THEN <<>>
    ELSE IF s[1] = " " THEN shlex_split(Tail(s))
    ELSE LET sp == Positions(s, " ")
             n  == IF sp = {} THEN Len(s)
                   ELSE (CHOOSE i \in sp : \A j \in sp : i <= j) - 1
         IN  <<SubSeq(s, 1, n)>> \o shlex_split(SubSeq(s, n + 1, Len(s)))

optional_secret(value) ==
    IF value # None THEN <<"Secret", value>> ELSE None

\* A Python list, where the place that holds it may hold None instead.
List(items) == <<"list", items>>

parse_python_path(s) ==
    IF Truthy(s) THEN List(shlex_split(s)) ELSE None

(***************************************************************************)
(* Method registry: one function per entry of CONNECTION_METHOD, each from  *)
(* a connection specification to the ContextService arguments of one hop.   *)
(* Arguments that are handed through from settings no operation changes     *)
(* (check_host_keys, ssh_args, sudo_args, ssh_debug_level and the paths of   *)
(* the docker, lxc and machinectl tools) are left out of the hops.           *)
(***************************************************************************)
connect_local(spec) ==
    [method |-> "local",
     kwargs |-> [python_path |-> spec.python_path]]

connect_ssh(spec) ==
    [method |-> "ssh",
     kwargs |-> [hostname |-> spec.remote_addr,
                 username |-> spec.remote_user,
                 password |-> optional_secret(spec.password),
                 port |-> spec.port,
                 python_path |-> spec.python_path,
                 identity_file |-> spec.private_key_file,
                 identities_only |-> FALSE,
                 ssh_path |-> spec.ssh_executable,
                 connect_timeout |-> spec.ansible_ssh_timeout]]

connect_docker(spec) ==
    [method |-> "docker",
     kwargs |-> [username |-> spec.remote_user,
                 container |-> spec.remote_addr,
                 python_path |-> spec.python_path,
                 connect_timeout |-> Or(spec.ansible_ssh_timeout, spec.timeout)]]

connect_jail(spec) ==
    [method |-> "jail",
     kwargs |-> [username |-> spec.remote_user,
                 container |-> spec.remote_addr,
                 python_path |-> spec.python_path,
                 connect_timeout |-> Or(spec.ansible_ssh_timeout, spec.timeout)]]

connect_lxc(spec) ==
    [method |-> "lxc",
     kwargs |-> [container |-> spec.remote_addr,
                 python_path |-> spec.python_path,
                 connect_timeout |-> Or(spec.ansible_ssh_timeout, spec.timeout)]]

connect_lxd(spec) ==
    [method |-> "lxd",
     kwargs |-> [container |-> spec.remote_addr,
                 python_path |-> spec.python_path,
                 connect_timeout |-> Or(spec.ansible_ssh_timeout, spec.timeout)]]

connect_setns(spec) ==
    [method |-> "setns",
     kwargs |-> [container |-> spec.remote_addr,
                 username |-> spec.remote_user,
                 python_path |-> spec.python_path,
                 kind |-> spec.mitogen_kind]]

connect_machinectl(spec) ==
    connect_setns([spec EXCEPT !.mitogen_kind = <<"machinectl">>])

connect_su(spec) ==
    [method |-> "su",
     enable_lru |-> TRUE,
     kwargs |-> [username |-> spec.become_user,
                 password |-> optional_secret(spec.become_pass),
                 python_path |-> spec.python_path,
                 su_path |-> spec.become_exe,
                 connect_timeout |-> spec.timeout]]

\* _connect_sudo without enable_lru.
connect_sudo_without_lru(spec) ==
    [method |-> "sudo",
     kwargs |-> [username |-> spec.become_user,
                 password |-> optional_secret(spec.become_pass),
                 python_path |-> spec.python_path,
                 sudo_path |-> spec.become_exe,
                 connect_timeout |-> spec.timeout]]

connect_sudo(spec) ==
    [method |-> "sudo",
     enable_lru |-> TRUE,
     kwargs |-> [username |-> spec.become_user,
                 password |-> optional_secret(spec.become_pass),
                 python_path |-> spec.python_path,
                 sudo_path |-> spec.become_exe,
                 connect_timeout |-> spec.timeout]]

connect_doas(spec) ==
    [method |-> "doas",
     enable_lru |-> TRUE,
     kwargs |-> [username |-> spec.become_user,
                 password |-> optional_secret(spec.become_pass),
                 python_path |-> spec.python_path,
                 doas_path |-> spec.become_exe,
                 connect_timeout |-> spec.timeout]]

connect_mitogen_su(spec) ==
    [method |-> "su",
     kwargs |-> [username |-> spec.remote_user,
                 password |-> optional_secret(spec.password),
                 python_path |-> spec.python_path,
                 su_path |-> spec.become_exe,
                 connect_timeout |-> spec.timeout]]

\* _connect_mitogen_sudo with the enable_lru of _connect_sudo.
connect_mitogen_sudo_with_lru(spec) ==
    [method |-> "sudo",
     enable_lru |-> TRUE,
     kwargs |-> [username |-> spec.remote_user,
                 password |-> optional_secret(spec.password),
                 python_path |-> spec.python_path,
                 sudo_path |-> spec.become_exe,
                 connect_timeout |-> spec.timeout]]

connect_mitogen_sudo(spec) ==
    [method |-> "sudo",
     kwargs |-> [username |-> spec.remote_user,
                 password |-> optional_secret(spec.password),
                 python_path |-> spec.python_path,
                 sudo_path |-> spec.become_exe,
                 connect_timeout |-> spec.timeout]]

connect_mitogen_doas(spec) ==
    [method |-> "doas",
     kwargs |-> [username |-> spec.remote_user,
                 password |-> optional_secret(spec.password),
                 python_path |-> spec.python_path,
                 doas_path |-> spec.become_exe,
                 connect_timeout |-> spec.timeout]]

\* The keys of CONNECTION_METHOD.
MethodNames ==
    {"docker", "jail", "local", "lxc", "lxd", "machinectl", "setns", "ssh",
     "su", "sudo", "doas", "mitogen_su", "mitogen_sudo", "mitogen_doas"}

\* CONNECTION_METHOD[name](spec), for name in MethodNames.
CONNECTION_METHOD(name, spec) ==
    CASE name = "docker" -> connect_docker(spec)
      [] name = "jail" -> connect_jail(spec)
      [] name = "local" -> connect_local(spec)
      [] name = "lxc" -> connect_lxc(spec)
      [] name = "lxd" -> connect_lxd(spec)
      [] name = "machinectl" -> connect_machinectl(spec)
      [] name = "setns" -> connect_setns(spec)
      [] name = "ssh" -> connect_ssh(spec)
      [] name = "su" -> connect_su(spec)
      [] name = "sudo" -> connect_sudo(spec)
      [] name = "doas" -> connect_doas(spec)
      [] name = "mitogen_su" -> connect_mitogen_su(spec)
      [] name = "mitogen_sudo" -> connect_mitogen_sudo(spec)
      [] name = "mitogen_doas" -> connect_mitogen_doas(spec)

(***************************************************************************)
(* Derivation of a connection specification.  `connection` is the          *)
(* Connection object, as the record of the fields the derivation reads.     *)
(***************************************************************************)
\* dict.get(key, default) on a dict modelled as a record of its keys.
Get(dict, key, default) ==
    IF key \in DOMAIN dict THEN dict[key] ELSE default

config_from_play_context(tr, inventory_name, connection) ==
    [transport |-> tr,
     inventory_name |-> inventory_name,
     remote_addr |-> connection.play_context.remote_addr,
     remote_user |-> connection.play_context.remote_user,
     become |-> connection.play_context.become,
     become_method |-> connection.play_context.become_method,
     become_user |-> connection.play_context.become_user,
     become_pass |-> connection.play_context.become_pass,
     password |-> connection.play_context.password,
     port |-> connection.play_context.port,
     python_path |-> parse_python_path(connection.python_path),
     private_key_file |-> connection.play_context.private_key_file,
     ssh_executable |-> connection.play_context.ssh_executable,
     timeout |-> connection.play_context.timeout,
     ansible_ssh_timeout |-> connection.ansible_ssh_timeout,
     become_exe |-> connection.play_context.become_exe,
     mitogen_via |-> connection.mitogen_via,
     mitogen_kind |-> connection.mitogen_kind]

\* config_from_hostvars that keeps the play context's remote_user.
config_from_hostvars_keeping_user(tr, inventory_name, connection, hostvars, become_user) ==
    [config_from_play_context(tr, inventory_name, connection) EXCEPT
        !.remote_addr = Get(hostvars, "ansible_host", inventory_name),
        !.become = Truthy(become_user),
        !.become_user = become_user,
        !.become_pass = None,
        !.password = Or(Get(hostvars, "ansible_ssh_pass", None),
                        Get(hostvars, "ansible_password", None)),
        !.port = Get(hostvars, "ansible_port", None),
        !.python_path =
            parse_python_path(Get(hostvars, "ansible_python_interpreter", None)),
        !.private_key_file =
            Or(Get(hostvars, "ansible_ssh_private_key_file", None),
               Get(hostvars, "ansible_private_key_file", None)),
        !.mitogen_via = Get(hostvars, "mitogen_via", None),
        !.mitogen_kind = Get(hostvars, "mitogen_kind", None)]

\* config_from_hostvars that leaves the play context's become_pass in place.
config_from_hostvars_keeping_become_pass(tr, inventory_name, connection, hostvars, become_user) ==
    [config_from_play_context(tr, inventory_name, connection) EXCEPT
        !.remote_addr = Get(hostvars, "ansible_host", inventory_name),
        !.become = Truthy(become_user),
        !.become_user = become_user,
        !.remote_user = Get(hostvars, "ansible_user", None),
        !.password = Or(Get(hostvars, "ansible_ssh_pass", None),
                        Get(hostvars, "ansible_password", None)),
        !.port = Get(hostvars, "ansible_port", None),
        !.python_path =
            parse_python_path(Get(hostvars, "ansible_python_interpreter", None)),
        !.private_key_file =
            Or(Get(hostvars, "ansible_ssh_private_key_file", None),
               Get(hostvars, "ansible_private_key_file", None)),
        !.mitogen_via = Get(hostvars, "mitogen_via", None),
        !.mitogen_kind = Get(hostvars, "mitogen_kind", None)]

\* config_from_hostvars, lines 368-393.
config_from_hostvars(tr, inventory_name, connection, hostvars, become_user) ==
    [config_from_play_context(tr, inventory_name, connection) EXCEPT
        !.remote_addr = Get(hostvars, "ansible_host", inventory_name),
        !.become = Truthy(become_user),
        !.become_user = become_user,
        !.become_pass = None,
        !.remote_user = Get(hostvars, "ansible_user", None),
        !.password = Or(Get(hostvars, "ansible_ssh_pass", None),
                        Get(hostvars, "ansible_password", None)),
        !.port = Get(hostvars, "ansible_port", None),
        !.python_path =
            parse_python_path(Get(hostvars, "ansible_python_interpreter", None)),
        !.private_key_file =
            Or(Get(hostvars, "ansible_ssh_private_key_file", None),
               Get(hostvars, "ansible_private_key_file", None)),
        !.mitogen_via = Get(hostvars, "mitogen_via", None),
        !.mitogen_kind = Get(hostvars, "mitogen_kind", None)]

(***************************************************************************)
(* Outcomes of a function: a returned value or a raised exception.          *)
(***************************************************************************)
NoMsg == [fmt |-> "", args |-> <<>>]

Return(value) == [kind |-> "return", value |-> value, msg |-> NoMsg]

Raise(exception, msg) == [kind |-> exception, value |-> None, msg |-> msg]

(***************************************************************************)
(* Host variables.  task_vars['hostvars'] is Ansible's HostVars mapping:    *)
(* an entry is the host's variable dict, and the lookup of a host the       *)
(* inventory does not hold, or whose variables did not resolve, yields an   *)
(* Undefined value instead of failing.                                      *)
(***************************************************************************)
Undefined == [undefined |-> TRUE]

IsUndefined(v) == "undefined" \in DOMAIN v

\* Connection.host_vars before the first on_action_run (None): no host has
\* variables.  Nothing reads it before on_action_run replaces it.
NoHostVars == [inventory_name \in {} |-> None]

\* self.host_vars[inventory_name]
HostVarsGet(hostvars, inventory_name) ==
    IF inventory_name \in DOMAIN hostvars
    THEN hostvars[inventory_name]
    ELSE Undefined

(***************************************************************************)
(* Stack resolver.  `self` is the Connection, as the record of the fields   *)
(* the resolver reads.                                                      *)
(***************************************************************************)
unknown_via_msg(via, name) ==
    [fmt |-> "mitogen_via=%s of %s specifies an unknown hostname",
     args |-> <<via, name>>]

via_cycle_msg(via, name, path) ==
    [fmt |-> "mitogen_via=%s of %s creates a cycle (%s)",
     args |-> <<via, name, path>>]

\* The elements of a tuple.
Elems(t) == {t[i] : i \in 1..Len(t)}

\* A routing cycle's path with the identities in the order they were
\* visited.
CyclePathForward(seen_names, inventory_name) ==
    join(<<" -> ">>, Append(seen_names, inventory_name))

\* The path of a routing cycle, as the message prints it (lines 560-562).
CyclePath(seen_names, inventory_name) ==
    join(<<" -> ">>, Reverse(Append(seen_names, inventory_name)))

\* The via host's variables used without the check of lines 535-541.
config_of_via_host_unchecked(self, become_user, inventory_name, via_vars) ==
    Return(config_from_hostvars(
               Get(via_vars, "ansible_connection", "ssh"),
               inventory_name,
               self,
               via_vars,
               Or(become_user, None)))

\* Lines 534-549, with via_spec parsed and the via host looked up.
config_of_via_host(self, become_user, inventory_name, via_vars) ==
    IF IsUndefined(via_vars)
    THEN Raise("AnsibleConnectionFailure",
               unknown_via_msg(self.mitogen_via, inventory_name))
    ELSE Return(config_from_hostvars(
                    Get(via_vars, "ansible_connection", "ssh"),
                    inventory_name,
                    self,
                    via_vars,
                    Or(become_user, None)))

\* Connection._config_from_via, lines 528-549.
config_from_via(self, via_spec) ==
    config_of_via_host(
        self,
        rpartition(via_spec, "@")[1],
        rpartition(via_spec, "@")[3],
        HostVarsGet(self.host_vars, rpartition(via_spec, "@")[3]))

\* A registry lookup that leaves out the hop of a name it does not hold.
AppendHopIfRegistered(stack, name, config) ==
    IF name \in MethodNames
    THEN Return(Append(stack, CONNECTION_METHOD(name, config)))
    ELSE Return(stack)

\* A registry lookup that puts the new hop before the hops so far.
AppendHopInFront(stack, name, config) ==
    IF name \in MethodNames
    THEN Return(<<CONNECTION_METHOD(name, config)>> \o stack)
    ELSE Raise("KeyError", [fmt |-> name, args |-> <<>>])

\* stack += (CONNECTION_METHOD[name](config),): a KeyError when the registry
\* has no such entry.
AppendHop(stack, name, config) ==
    IF name \in MethodNames
    THEN Return(Append(stack, CONNECTION_METHOD(name, config)))
    ELSE Raise("KeyError", [fmt |-> name, args |-> <<>>])

\* return stack, seen_names (line 577), unless building the stack raised.
WithSeen(stack, seen_names) ==
    IF stack.kind # "return" THEN stack
    ELSE Return(<<stack.value, seen_names>>)

\* Lines 574-577 without the escalation hop.
BecomeHopSkipped(config, base, seen_names) ==
    IF base.kind # "return" THEN base
    ELSE Return(<<base.value, seen_names>>)

\* Lines 574-577, given the outcome of line 573.
BecomeHop(config, base, seen_names) ==
    IF base.kind # "return" THEN base
    ELSE IF ~config.become THEN Return(<<base.value, seen_names>>)
    ELSE WithSeen(AppendHop(base.value, config.become_method, config),
                  seen_names)

\* Lines 573-577: the hops of one host, appended to the stack of its via
\* chain.
OwnHops(config, stack, seen_names) ==
    BecomeHop(config, AppendHop(stack, config.transport, config), seen_names)

\* Lines 573-577, given the outcome of the recursive call of line 567.
AfterVia(config, inner) ==
    IF inner.kind # "return" THEN inner
    ELSE OwnHops(config, inner.value[1], inner.value[2])

\* A cycle test that also takes a host at the address of a visited
\* identity for that identity.
SeenByAddress(config, seen_names) ==
    \/ config.inventory_name \in Elems(seen_names)
    \/ config.remote_addr \in Elems(seen_names)

\* A cycle test that lets an identity through once more before it fails.
SeenTwice(config, seen_names) ==
    Cardinality({i \in DOMAIN seen_names :
                    seen_names[i] = config.inventory_name}) >= 2

\* Line 555: the specification's identity was already visited.
Seen(config, seen_names) ==
    config.inventory_name \in Elems(seen_names)

RECURSIVE stack_from_config(_, _, _, _)
\* Lines 567-571, given the outcome of _config_from_via.
ThroughVia(self, config, stack, seen_names, via) ==
    IF via.kind # "return" THEN via
    ELSE AfterVia(config,
                  stack_from_config(self, via.value, stack,
                                    Append(seen_names, config.inventory_name)))

\* Connection._stack_from_config, lines 554-577.
stack_from_config(self, config, stack, seen_names) ==
    IF Seen(config, seen_names)
    THEN Raise("AnsibleConnectionFailure",
               via_cycle_msg(config.mitogen_via, config.inventory_name,
                             CyclePath(seen_names, config.inventory_name)))
    ELSE IF Truthy(config.mitogen_via)
    THEN ThroughVia(self, config, stack, seen_names,
                    config_from_via(self, config.mitogen_via))
    ELSE OwnHops(config, stack, seen_names)

\* The number of times _stack_from_config is entered, itself included, when
\* it is called with config and seen_names: once, and once more for every
\* recursive call of lines 566-571.
RECURSIVE stack_from_config_calls(_, _, _)
CallsThroughVia(self, config, seen_names, via) ==
    IF via.kind # "return" THEN 1
    ELSE 1 + stack_from_config_calls(
                 self, via.value, Append(seen_names, config.inventory_name))

stack_from_config_calls(self, config, seen_names) ==
    IF Seen(config, seen_names) THEN 1
    ELSE IF Truthy(config.mitogen_via)
    THEN CallsThroughVia(self, config, seen_names,
                         config_from_via(self, config.mitogen_via))
    ELSE 1

\* Connection._config_from_direct_connection, lines 591-598.
config_from_direct_connection(self) ==
    config_from_play_context(self.transport, self.inventory_hostname, self)

\* Connection._config_from_delegate_to, lines 600-609.
config_from_delegate_to(self) ==
    config_from_hostvars(
        self.play_context.connection,
        self.delegate_to_hostname,
        self,
        HostVarsGet(self.host_vars, self.play_context.delegate_to),
        IF self.play_context.become
        THEN self.play_context.become_user
        ELSE None)

\* The target's specification, lines 618-621.
target_config(self) ==
    IF self.delegate_to_hostname # None
    THEN config_from_delegate_to(self)
    ELSE config_from_direct_connection(self)

\* stack, _ = ...; return stack (lines 623-624).
StackOnly(r) ==
    IF r.kind # "return" THEN r ELSE Return(r.value[1])

\* Connection._build_stack, lines 611-624.
build_stack(self) ==
    StackOnly(stack_from_config(self, target_config(self), <<>>, <<>>))

(***************************************************************************)
(* The Connection object.  A handler runs to completion in one step, so     *)
(* its body is a function from the object's fields before the call (a       *)
(* "frame" record) to the fields after it, together with the requests it    *)
(* sent and the exception it raised, if any.  Where a handler goes on from  *)
(* the outcome of a call it made, the rest of its body is an operator of    *)
(* that outcome.                                                            *)
(***************************************************************************)
\* The fields of `self` the resolver reads.
Self ==
    [play_context |-> play_context,
     transport |-> transport,
     ansible_ssh_timeout |-> ansible_ssh_timeout,
     python_path |-> python_path,
     mitogen_via |-> mitogen_via,
     mitogen_kind |-> mitogen_kind,
     inventory_hostname |-> inventory_hostname,
     host_vars |-> host_vars,
     delegate_to_hostname |-> delegate_to_hostname]

\* The reply seen by an operation that sent no get request.
NoReply ==
    [msg |-> None, method_name |-> "", context |-> None, via |-> None,
     init_child_result |-> [fork_context |-> None, home_dir |-> None,
                            temp_dir |-> None]]

\* One caller at a time, the execution model of Ansible's task executor: it
\* is outside _connect whenever another operation begins.
OneCaller == [at |-> <<"out">>, raced |-> FALSE]

\* The frame a handler starts from.
Frame ==
    [broker |-> broker, router |-> router, parent |-> parent,
     context |-> context, login_context |-> login_context,
     fork_context |-> fork_context, home_dir |-> home_dir,
     temp_dir |-> temp_dir, shutdown |-> shutdown, refs |-> refs,
     sent |-> <<>>, got |-> NoReply, exc |-> "", msg |-> NoMsg,
     value |-> None]

Throw(st, exception, msg) == [st EXCEPT !.exc = exception, !.msg = msg]

SetValue(st, value) ==
    IF st.exc # "" THEN st ELSE [st EXCEPT !.value = value]

Request(dest, name, args) == [dest |-> dest, name |-> name, args |-> args]

Send(st, dest, name, args) ==
    [st EXCEPT !.sent = Append(@, Request(dest, name, args))]

\* Connection.become_methods, line 420.
become_methods == {"sudo", "su", "doas"}

\* A connected test that never finds the Connection connected.
connected_never(st) == FALSE

\* Connection.connected, lines 524-526.
connected(st) == st.context # None

\* The broker a parent or router reference is bound to.
BrokerOf(ref) == ref[2]

\* self.parent.call_service(...): an attribute error on None; on a parent
\* whose broker was shut down the request is handed to a dead router and the
\* call fails.
call_service(st, name, args) ==
    IF st.parent = None
    THEN Throw(st, "AttributeError", NoMsg)
    ELSE IF BrokerOf(st.parent) \in st.shutdown
    THEN Throw(Send(st, st.parent, name, args), "ChannelError", NoMsg)
    ELSE Send(st, st.parent, name, args)

\* The brokers this Connection has created so far: each is either the
\* current one or was shut down; the next one created is a new object.
BrokersMade(st) ==
    st.shutdown \cup (IF st.broker # None THEN {BrokerOf(st.broker)} ELSE {})

NewBroker(st) == Cardinality(BrokersMade(st)) + 1

\* mitogen.master.Broker() and mitogen.unix.connect(), lines 585-589.
CreateBroker(st) ==
    [st EXCEPT !.broker = <<"Broker", NewBroker(st)>>,
               !.router = <<"Router", NewBroker(st)>>,
               !.parent = <<"Parent", NewBroker(st)>>]

\* _connect_broker without the test of line 584.
connect_broker_always(st) == CreateBroker(st)

\* Connection._connect_broker, lines 579-589.
connect_broker(st) ==
    IF st.broker # None THEN st ELSE CreateBroker(st)

\* Lines 638-651 with every failure raised as a connection failure.
GotReplyUnclassified(s1, dct) ==
    IF s1.exc # "" THEN s1
    ELSE IF Truthy(dct.msg)
    THEN Throw([s1 EXCEPT !.got = dct], "AnsibleConnectionFailure",
               [fmt |-> "%s", args |-> <<dct.msg>>])
    ELSE [s1 EXCEPT
            !.got = dct,
            !.refs = @ (+) SetToBag({dct.context}),
            !.context = dct.context,
            !.login_context =
                IF play_context.become THEN dct.via ELSE dct.context,
            !.fork_context = dct.init_child_result.fork_context,
            !.home_dir = dct.init_child_result.home_dir,
            !.temp_dir = dct.init_child_result.temp_dir]

\* Lines 638-651: s1 is the frame after the get request, dct the reply.
GotReply(s1, dct) ==
    IF s1.exc # "" THEN s1
    ELSE IF Truthy(dct.msg)
    THEN IF dct.method_name \in become_methods
         THEN Throw([s1 EXCEPT !.got = dct], "AnsibleModuleError",
                    [fmt |-> "%s", args |-> <<dct.msg>>])
         ELSE Throw([s1 EXCEPT !.got = dct], "AnsibleConnectionFailure",
                    [fmt |-> "%s", args |-> <<dct.msg>>])
    ELSE [s1 EXCEPT
            !.got = dct,
            !.refs = @ (+) SetToBag({dct.context}),
            !.context = dct.context,
            !.login_context =
                IF play_context.become THEN dct.via ELSE dct.context,
            !.fork_context = dct.init_child_result.fork_context,
            !.home_dir = dct.init_child_result.home_dir,
            !.temp_dir = dct.init_child_result.temp_dir]

\* Connection._connect_stack, lines 626-651.
connect_stack(st, stack, dct) ==
    GotReply(call_service(st, "ContextService.get", <<"stack", stack>>), dct)

\* Lines 672-673 up to the point where _connect_stack waits for the reply
\* of ContextService.get (line 637): stack is the outcome of _build_stack.
ConnectBuiltRequest(s1, stack) ==
    IF stack.kind # "return"
    THEN Throw(s1, stack.kind, stack.msg)
    ELSE call_service(s1, "ContextService.get", <<"stack", stack.value>>)

\* Lines 672-673 with the service asked for the empty stack when resolution
\* failed, before the failure is raised.
ConnectBuiltPartial(s1, stack, dct) ==
    IF stack.kind # "return"
    THEN Throw(call_service(s1, "ContextService.get", <<"stack", <<>>>>),
               stack.kind, stack.msg)
    ELSE GotReply(call_service(s1, "ContextService.get",
                               <<"stack", stack.value>>), dct)

\* Lines 672-673: stack is the outcome of _build_stack.
ConnectBuilt(s1, stack, dct) ==
    IF stack.kind # "return"
    THEN Throw(s1, stack.kind, stack.msg)
    ELSE connect_stack(s1, stack.value, dct)

\* _connect without the test of lines 668-669.
connect_always(st, dct) ==
    ConnectBuilt(connect_broker(st), build_stack(Self), dct)

\* Connection._connect, lines 657-673.
connect(st, dct) ==
    IF connected(st)
    THEN st
    ELSE ConnectBuilt(connect_broker(st), build_stack(Self), dct)

\* Lines 691-695 without the test of new_task.
ShutdownBrokerAlways(s2, new_task) ==
    IF s2.broker # None
    THEN [s2 EXCEPT !.shutdown = @ \cup {BrokerOf(s2.broker)},
                    !.broker = None,
                    !.router = None]
    ELSE s2

\* Lines 691-695.
ShutdownBroker(s2, new_task) ==
    IF s2.broker # None /\ ~new_task
    THEN [s2 EXCEPT !.shutdown = @ \cup {BrokerOf(s2.broker)},
                    !.broker = None,
                    !.router = None]
    ELSE s2

\* Lines 688-695: s1 is the frame after the put request, if one was sent;
\* the service drops the reference it is told to.
Released(s1, released, new_task) ==
    IF s1.exc # "" THEN s1
    ELSE ShutdownBroker(
             [s1 EXCEPT !.refs = IF released # None
                                 THEN @ (-) SetToBag({released})
                                 ELSE @,
                        !.context = None,
                        !.fork_context = None,
                        !.login_context = None],
             new_task)

\* close without the test of line 681: the put is sent whether or not a
\* handle is held.
close_unguarded(st, new_task) ==
    Released(call_service(st, "ContextService.put",
                          <<"context", st.context>>),
             st.context, new_task)

\* Connection.close, lines 675-695.
close(st, new_task) ==
    Released(IF st.context # None
             THEN call_service(st, "ContextService.put",
                               <<"context", st.context>>)
             ELSE st,
             st.context, new_task)

\* Lines 718-726: s1 is the frame after _connect.
Dispatch(s1, call_context, func, args, no_reply) ==
    IF s1.exc # "" THEN s1
    ELSE IF call_context = None
    THEN Throw(s1, "AttributeError", NoMsg)
    ELSE IF no_reply
    THEN SetValue(Send(s1, call_context, "call_no_reply", <<func, args>>),
                  None)
    ELSE SetValue(Send(s1, call_context, "call_async", <<func, args>>),
                  <<"Receiver">>)

\* Lines 718-721.
CallContext(s1, use_login_context) ==
    IF use_login_context THEN s1.login_context ELSE s1.context

\* Lines 716-726, after _connect.
DispatchOn(s1, func, args, use_login_context, no_reply) ==
    Dispatch(s1, CallContext(s1, use_login_context), func, args, no_reply)

\* Connection.call_async, lines 697-726.
call_async(st, dct, func, args, use_login_context, no_reply) ==
    DispatchOn(connect(st, dct), func, args, use_login_context, no_reply)

\* Lines 740-742: s1 is the frame after call_async, reply what the target
\* answers.
Received(s1, reply) ==
    IF s1.exc # "" THEN s1
    ELSE IF s1.value = None THEN s1
    ELSE IF reply.raised
    THEN Throw(s1, "CallError", NoMsg)
    ELSE [s1 EXCEPT !.value = reply.value]

\* Connection.call, lines 728-745.
call(st, dct, func, args, use_login_context, no_reply, reply) ==
    Received(call_async(st, dct, func, args, use_login_context, no_reply),
             reply)

\* Connection.create_fork_child, lines 747-756.
create_fork_child(st, dct, reply) ==
    call(st, dct, "create_fork_child", <<>>, FALSE, FALSE, reply)

\* Connection.get_default_cwd, lines 758-763.
get_default_cwd == None

\* emulate_tty that follows sudoable alone.
EmulateTtyWhenSudoable(in_data, sudoable) == sudoable

\* Line 784.
EmulateTty(in_data, sudoable) == ~Truthy(in_data) /\ sudoable

\* Lines 793-797: s1 is the frame after the call.
WithTrailer(s1, emulate_tty) ==
    IF s1.exc # "" THEN s1
    ELSE [s1 EXCEPT !.value =
            <<s1.value[1], s1.value[2],
              s1.value[3] \o <<"Shared connection to ">>
                          \o play_context.remote_addr
                          \o <<" closed.">>
                          \o (IF emulate_tty THEN <<"\r\n">> ELSE <<"\n">>)>>]

\* Connection.exec_command, lines 772-797.
exec_command(st, dct, cmd, in_data, sudoable, mitogen_chdir, reply) ==
    WithTrailer(
        call(st, dct, "exec_command",
             [cmd |-> cmd, in_data |-> in_data,
              chdir |-> Or(mitogen_chdir, get_default_cwd),
              emulate_tty |-> EmulateTty(in_data, sudoable)],
             FALSE, FALSE, reply),
        EmulateTty(in_data, sudoable))

\* Connection.fetch_file, lines 799-811.
fetch_file(st, dct, in_path, out_path, reply) ==
    SetValue(call(st, dct, "read_path", <<in_path>>, FALSE, FALSE, reply),
             None)

\* Connection.put_data, lines 813-835.
put_data(st, dct, out_path, data, mode, utimes, reply) ==
    call(st, dct, "write_path",
         [out_path |-> out_path, data |-> data, mode |-> mode,
          utimes |-> utimes],
         FALSE, TRUE, reply)

\* mitogen.core.CHUNK_SIZE
CHUNK_SIZE == 131072

\* Connection.SMALL_FILE_LIMIT, line 841.
SMALL_FILE_LIMIT == CHUNK_SIZE - 4096

Min(a, b) == IF a <= b THEN a ELSE b

\* len(fp.read(SMALL_FILE_LIMIT + 1)), line 863.
ReadLen(file) == Min(file.size_at_read, SMALL_FILE_LIMIT + 1)

\* Lines 877-882: s1 is the frame after FileService.register.
Transfer(s1, dct, in_path, out_path, reply) ==
    IF s1.exc # "" THEN s1
    ELSE SetValue(call(s1, dct, "transfer_file",
                       [context |-> s1.parent, in_path |-> in_path,
                        out_path |-> out_path],
                       FALSE, FALSE, reply),
                  None)

\* Lines 872-882: the streamed path.
Streamed(st, dct, in_path, out_path, reply) ==
    Transfer(call_service(st, "FileService.register", <<"path", in_path>>),
             dct, in_path, out_path, reply)

\* put_file with the size test of line 860 off by one.
put_file_below_limit(st, dct, in_path, out_path, file, reply) ==
    IF ~file.is_reg
    THEN Throw(st, "IOError", NoMsg)
    ELSE IF file.st_size < SMALL_FILE_LIMIT /\ ReadLen(file) = file.st_size
    THEN put_data(st, dct, out_path, <<"Blob", ReadLen(file)>>, file.st_mode,
                  <<file.st_atime, file.st_mtime>>, reply)
    ELSE Streamed(st, dct, in_path, out_path, reply)

\* put_file without the length test of line 868.
put_file_unchecked_length(st, dct, in_path, out_path, file, reply) ==
    IF ~file.is_reg
    THEN Throw(st, "IOError", NoMsg)
    ELSE IF file.st_size <= SMALL_FILE_LIMIT
    THEN put_data(st, dct, out_path, <<"Blob", ReadLen(file)>>, file.st_mode,
                  <<file.st_atime, file.st_mtime>>, reply)
    ELSE Streamed(st, dct, in_path, out_path, reply)

\* put_file that connects before it looks at the local file.
put_file_connect_first(st, dct, in_path, out_path, file, reply) ==
    IF ~file.is_reg
    THEN Throw(connect(st, dct), "IOError", NoMsg)
    ELSE IF file.st_size <= SMALL_FILE_LIMIT /\ ReadLen(file) = file.st_size
    THEN put_data(st, dct, out_path, <<"Blob", ReadLen(file)>>, file.st_mode,
                  <<file.st_atime, file.st_mtime>>, reply)
    ELSE Streamed(st, dct, in_path, out_path, reply)

\* Connection.put_file, lines 843-882.  file is the local file as the
\* handler sees it: whether it is a regular file, its size at os.stat and
\* its size when it is read.
put_file(st, dct, in_path, out_path, file, reply) ==
    IF ~file.is_reg
    THEN Throw(st, "IOError", NoMsg)
    ELSE IF file.st_size <= SMALL_FILE_LIMIT /\ ReadLen(file) = file.st_size
    THEN put_data(st, dct, out_path, <<"Blob", ReadLen(file)>>, file.st_mode,
                  <<file.st_atime, file.st_mtime>>, reply)
    ELSE Streamed(st, dct, in_path, out_path, reply)

\* return self.home_dir
HomeDirOf(s1) == SetValue(s1, s1.home_dir)

\* Connection.homedir, lines 519-522.
homedir(st, dct) == HomeDirOf(connect(st, dct))

\* return self._temp_dir
TempDirOf(s1) == SetValue(s1, s1.temp_dir)

\* Connection.get_temp_dir, lines 653-655.
get_temp_dir(st, dct) == TempDirOf(connect(st, dct))

(***************************************************************************)
(* The multiplexer's ContextService, as the Connection sees it.  A context  *)
(* is identified by the stack that reaches it; get counts a reference on    *)
(* the target's context and put drops one.                                  *)
(***************************************************************************)
ContextFor(stack) == <<"Context", stack>>

\* The replies ContextService.get may give for a stack: the context, the
\* context of the hop before the last one (None for a single hop) and the
\* result of initialising the child; or the failure of one of the hops.
GetReplies(stack) ==
    {[msg |-> None, method_name |-> "",
      context |-> ContextFor(stack),
      via |-> IF Len(stack) > 1
              THEN ContextFor(SubSeq(stack, 1, Len(stack) - 1))
              ELSE None,
      init_child_result |-> [fork_context |-> <<"ForkContext", stack>>,
                             home_dir |-> <<"/home/u">>,
                             temp_dir |-> <<"/tmp/x">>]]}
    \cup
    {[msg |-> <<"connection failed">>, method_name |-> stack[i].method,
      context |-> None, via |-> None,
      init_child_result |-> [fork_context |-> None, home_dir |-> None,
                             temp_dir |-> None]] : i \in 1..Len(stack)}

RepliesTo(stack) ==
    IF context # None \/ stack.kind # "return"
    THEN {NoReply}
    ELSE GetReplies(stack.value)

\* The replies an operation may see, if it sends a get at all.
Replies == RepliesTo(build_stack(Self))

\* What the target answers to a function call that waits for its result.
CallReplies ==
    {[raised |-> FALSE, value |-> <<(<<"0">>), (<<"out">>), (<<"err">>)>>],
     [raised |-> TRUE, value |-> None]}

(***************************************************************************)
(* Inputs.                                                                  *)
(***************************************************************************)
hostA == <<"a">>
hostB == <<"b">>
hostC == <<"c">>
hostZ == <<"z">>          \* a name the inventory never holds

\* C.DEFAULT_TIMEOUT
DEFAULT_TIMEOUT == <<"10">>

PlayContext(become, become_method, become_user, connection, delegate_to) ==
    [connection |-> connection,
     remote_addr |-> <<"10.0.0.1">>,
     remote_user |-> <<"u">>,
     become |-> become,
     become_method |-> become_method,
     become_user |-> become_user,
     become_pass |-> <<"pw">>,
     password |-> <<"login-pw">>,
     port |-> <<"22">>,
     private_key_file |-> <<"id_rsa">>,
     ssh_executable |-> <<"ssh">>,
     timeout |-> DEFAULT_TIMEOUT,
     become_exe |-> None,
     delegate_to |-> delegate_to]

\* The play contexts a Connection is constructed with in the life-cycle
\* specification.
PlayContexts ==
    {PlayContext(FALSE, "sudo", None, "ssh", None),
     PlayContext(TRUE, "sudo", <<"root">>, "ssh", None),
     PlayContext(TRUE, "sudo", <<"root">>, "ssh", hostB),
     PlayContext(TRUE, "sudo", None, "ssh", hostB)}

\* The host variable dicts of one host.
HostDict(via, conn, addr) ==
    LET m == IF via = None THEN <<>> ELSE [k \in {"mitogen_via"} |-> via]
        c == IF conn = "" THEN <<>>
             ELSE [k \in {"ansible_connection"} |-> conn]
        a == IF addr = None THEN <<>> ELSE [k \in {"ansible_host"} |-> addr]
    IN  m @@ c @@ a

\* The inventories of the life-cycle specification: hostvars for a, b, c.
Inventory(b, c) ==
    [h \in {hostA, hostB, hostC} |->
        IF h = hostA THEN HostDict(None, "", None)
        ELSE IF h = hostB THEN b ELSE c]

Plain == HostDict(None, "", None)

TaskVarsOf(inv, via) ==
    [k \in {"inventory_hostname", "hostvars", "mitogen_via"} |->
        IF k = "inventory_hostname" THEN hostA
        ELSE IF k = "hostvars" THEN inv
        ELSE via]

\* The task variables on_action_run is called with: a direct target; a
\* chain a via b via c; a cycle; an unknown via host; a via host with a
\* transport the registry lacks; a via reference with an escalation user.
TaskVars ==
    {TaskVarsOf(Inventory(Plain, Plain), None),
     TaskVarsOf(Inventory(HostDict(hostC, "", None),
                          HostDict(None, "local", None)), hostB),
     TaskVarsOf(Inventory(HostDict(hostC, "", None),
                          HostDict(hostB, "", None)), hostB),
     TaskVarsOf(Inventory(Plain, Undefined), hostC),
     TaskVarsOf(Inventory(HostDict(None, "telnet", None), Plain), hostB),
     TaskVarsOf(Inventory(Plain, Plain), <<"r", "@", "b">>)}

\* The local files put_file is called on.
LocalFile(is_reg, st_size, size_at_read) ==
    [is_reg |-> is_reg, st_size |-> st_size, size_at_read |-> size_at_read,
     st_mode |-> <<"0644">>, st_atime |-> <<"t0">>, st_mtime |-> <<"t1">>]

\* A path that is no regular file; files of 0, SMALL_FILE_LIMIT,
\* SMALL_FILE_LIMIT + 1 and CHUNK_SIZE bytes that do not change; and files
\* that grow or shrink between os.stat and the read.
LocalFiles ==
    {LocalFile(FALSE, 0, 0),
     LocalFile(TRUE, 0, 0),
     LocalFile(TRUE, SMALL_FILE_LIMIT, SMALL_FILE_LIMIT),
     LocalFile(TRUE, SMALL_FILE_LIMIT + 1, SMALL_FILE_LIMIT + 1),
     LocalFile(TRUE, CHUNK_SIZE, CHUNK_SIZE),
     LocalFile(TRUE, SMALL_FILE_LIMIT, SMALL_FILE_LIMIT + 1),
     LocalFile(TRUE, 1, CHUNK_SIZE),
     LocalFile(TRUE, 2, 1)}

(***************************************************************************)
(* The state machine: one action per public operation.                      *)
(***************************************************************************)
\* The state after construction: the class attributes of lines 398-470.
Init ==
    /\ play_context \in PlayContexts
    /\ transport = "ssh"
    /\ ansible_ssh_timeout = None
    /\ python_path = None
    /\ mitogen_via = None
    /\ mitogen_kind = None
    /\ inventory_hostname = None
    /\ host_vars = NoHostVars
    /\ delegate_to_hostname = None
    /\ broker = None
    /\ router = None
    /\ parent = None
    /\ context = None
    /\ login_context = None
    /\ fork_context = None
    /\ home_dir = None
    /\ temp_dir = None
    /\ shutdown = {}
    /\ refs = EmptyBag
    /\ op = [name |-> "__init__", new_task |-> FALSE, input |-> None,
             was_connected |-> FALSE,
             got |-> NoReply, exc |-> "", msg |-> NoMsg, value |-> None]
    /\ sent = <<>>
    /\ callers = OneCaller

\* The fields a handler leaves behind become the state; the operation, the
\* arguments it was called with, its outcome and its requests are recorded.
CommitWith(name, new_task, input, st) ==
    /\ broker' = st.broker
    /\ router' = st.router
    /\ parent' = st.parent
    /\ context' = st.context
    /\ login_context' = st.login_context
    /\ fork_context' = st.fork_context
    /\ home_dir' = st.home_dir
    /\ temp_dir' = st.temp_dir
    /\ shutdown' = st.shutdown
    /\ refs' = st.refs
    /\ sent' = st.sent
    /\ op' = [name |-> name, new_task |-> new_task, input |-> input,
              was_connected |-> context # None, got |-> st.got,
              exc |-> st.exc, msg |-> st.msg, value |-> st.value]

\* An operation whose arguments no property reads.
Commit(name, new_task, st) == CommitWith(name, new_task, None, st)

\* The model stops creating brokers and asking for handles at its bounds.
WithinBounds ==
    \/ context # None
    \/ /\ broker # None \/ Cardinality(shutdown) < MaxBrokers
       /\ BagCardinality(refs) < MaxHandles

\* on_action_run without the close(new_task=True) of line 517.
OnActionRunKeepsHandle ==
    \E task_vars \in TaskVars :
        /\ ansible_ssh_timeout' =
               Get(task_vars, "ansible_ssh_timeout", DEFAULT_TIMEOUT)
        /\ python_path' =
               Get(task_vars, "ansible_python_interpreter",
                   <<"/usr/bin/python">>)
        /\ mitogen_via' = Get(task_vars, "mitogen_via", None)
        /\ mitogen_kind' = Get(task_vars, "mitogen_kind", None)
        /\ inventory_hostname' = task_vars["inventory_hostname"]
        /\ host_vars' = task_vars["hostvars"]
        /\ delegate_to_hostname' = play_context.delegate_to
        /\ Commit("on_action_run", TRUE, Frame)
        /\ UNCHANGED fixedVars

\* Connection.on_action_run, lines 488-517.
OnActionRun ==
    \E task_vars \in TaskVars :
        /\ ansible_ssh_timeout' =
               Get(task_vars, "ansible_ssh_timeout", DEFAULT_TIMEOUT)
        /\ python_path' =
               Get(task_vars, "ansible_python_interpreter",
                   <<"/usr/bin/python">>)
        /\ mitogen_via' = Get(task_vars, "mitogen_via", None)
        /\ mitogen_kind' = Get(task_vars, "mitogen_kind", None)
        /\ inventory_hostname' = task_vars["inventory_hostname"]
        /\ host_vars' = task_vars["hostvars"]
        /\ delegate_to_hostname' = play_context.delegate_to
        /\ Commit("on_action_run", TRUE, close(Frame, TRUE))
        /\ UNCHANGED fixedVars

Close ==
    \E new_task \in BOOLEAN :
        /\ Commit("close", new_task, close(Frame, new_task))
        /\ UNCHANGED <<fixedVars, taskVars>>

\* The outcome of _build_stack, as the outcome of an operation.
Built(st, r) ==
    [st EXCEPT !.exc = IF r.kind = "return" THEN "" ELSE r.kind,
               !.msg = r.msg,
               !.value = IF r.kind = "return"
                         THEN <<"Stack", r.value>>
                         ELSE None]

\* The "mitogen_get_stack" action: _build_stack alone, lines 611-624.
GetStack ==
    /\ Commit("_build_stack", FALSE, Built(Frame, build_stack(Self)))
    /\ UNCHANGED <<fixedVars, taskVars>>

Homedir ==
    /\ WithinBounds
    /\ \E dct \in Replies :
           Commit("homedir", FALSE, homedir(Frame, dct))
    /\ UNCHANGED <<fixedVars, taskVars>>

GetTempDir ==
    /\ WithinBounds
    /\ \E dct \in Replies :
           Commit("get_temp_dir", FALSE, get_temp_dir(Frame, dct))
    /\ UNCHANGED <<fixedVars, taskVars>>

CallAsync ==
    /\ WithinBounds
    /\ \E dct \in Replies, use_login_context \in BOOLEAN, no_reply \in BOOLEAN :
           Commit("call_async", FALSE,
                  call_async(Frame, dct, "func", <<>>, use_login_context,
                             no_reply))
    /\ UNCHANGED <<fixedVars, taskVars>>

Call ==
    /\ WithinBounds
    /\ \E dct \in Replies, use_login_context \in BOOLEAN, no_reply \in BOOLEAN,
          reply \in CallReplies :
           Commit("call", FALSE,
                  call(Frame, dct, "func", <<>>, use_login_context, no_reply,
                       reply))
    /\ UNCHANGED <<fixedVars, taskVars>>

CreateForkChild ==
    /\ WithinBounds
    /\ \E dct \in Replies, reply \in CallReplies :
           Commit("create_fork_child", FALSE,
                  create_fork_child(Frame, dct, reply))
    /\ UNCHANGED <<fixedVars, taskVars>>

ExecCommand ==
    /\ WithinBounds
    /\ \E dct \in Replies, in_data \in {<<>>, <<"input">>},
          sudoable \in BOOLEAN, reply \in CallReplies :
           CommitWith("exec_command", FALSE,
                  <<"exec_command", in_data, sudoable>>,
                  exec_command(Frame, dct, <<"true">>, in_data, sudoable,
                               None, reply))
    /\ UNCHANGED <<fixedVars, taskVars>>

FetchFile ==
    /\ WithinBounds
    /\ \E dct \in Replies, reply \in CallReplies :
           Commit("fetch_file", FALSE,
                  fetch_file(Frame, dct, <<"/remote">>, <<"/local">>, reply))
    /\ UNCHANGED <<fixedVars, taskVars>>

PutFile ==
    /\ WithinBounds
    /\ \E dct \in Replies, file \in LocalFiles, reply \in CallReplies :
           CommitWith("put_file", FALSE, <<"put_file", file>>,
                  put_file(Frame, dct, <<"/local">>, <<"/remote">>, file,
                           reply))
    /\ UNCHANGED <<fixedVars, taskVars>>

Next ==
    \/ OnActionRun
    \/ Close
    \/ GetStack
    \/ Homedir
    \/ GetTempDir
    \/ CallAsync
    \/ Call
    \/ CreateForkChild
    \/ ExecCommand
    \/ FetchFile
    \/ PutFile

Spec == Init /\ [][Next]_vars

(***************************************************************************)
(* The resolver on its own: a Connection on which on_action_run has just    *)
(* stored the task's variables, drawn from every inventory over the hosts   *)
(* a, b and c, and on which _build_stack is then called.                    *)
(***************************************************************************)
\* An address two hosts share: a host with this ansible_host is a second
\* inventory name for the machine of host b.
SharedAddr == hostB

\* The via references of the resolver's inventories.
Vias ==
    {None, hostA, hostB, hostC, hostZ, <<"r", "@", "b">>, <<"r", "@", "c">>}

\* The host variables one via host may have.
HostChoices ==
    {HostDict(via, "", None) : via \in Vias}
    \cup {HostDict(via, "", SharedAddr) : via \in {None, hostB, hostC}}
    \cup {HostDict(None, "local", None), HostDict(None, "telnet", None),
          Undefined}

ResolveInventories ==
    {[h \in {hostA, hostB, hostC} |->
        IF h = hostA THEN a ELSE IF h = hostB THEN b ELSE c] :
        a \in {Plain, HostDict(hostB, "", None)},
        b \in HostChoices, c \in HostChoices}

ResolvePlayContexts ==
    {PlayContext(FALSE, "sudo", None, "ssh", None),
     PlayContext(TRUE, "sudo", <<"root">>, "ssh", None),
     PlayContext(TRUE, "pbrun", <<"root">>, "ssh", None),
     PlayContext(FALSE, "sudo", None, "ssh", hostB),
     PlayContext(TRUE, "sudo", <<"root">>, "ssh", hostB),
     PlayContext(TRUE, "sudo", None, "lxd", hostB)}

InitResolve ==
    /\ play_context \in ResolvePlayContexts
    /\ transport \in {"ssh", "docker"}
    /\ ansible_ssh_timeout = DEFAULT_TIMEOUT
    /\ python_path = <<"/usr/bin/python">>
    /\ mitogen_via \in Vias
    /\ mitogen_kind = None
    /\ inventory_hostname = hostA
    /\ host_vars \in ResolveInventories
    /\ delegate_to_hostname = play_context.delegate_to
    /\ IF play_context.delegate_to = None THEN TRUE
       ELSE ~IsUndefined(host_vars[play_context.delegate_to])
    /\ broker = None
    /\ router = None
    /\ parent = None
    /\ context = None
    /\ login_context = None
    /\ fork_context = None
    /\ home_dir = None
    /\ temp_dir = None
    /\ shutdown = {}
    /\ refs = EmptyBag
    /\ op = [name |-> "on_action_run", new_task |-> TRUE, input |-> None,
             was_connected |-> FALSE, got |-> NoReply, exc |-> "",
             msg |-> NoMsg, value |-> None]
    /\ sent = <<>>
    /\ callers = OneCaller

NextResolve == GetStack

SpecResolve == InitResolve /\ [][NextResolve]_vars

(***************************************************************************)
(* The registry alone: one task per transport the registry holds, with and  *)
(* without an escalation step, directly, delegated and through a via host.  *)
(***************************************************************************)
\* The names of the registry that connection plugins carry as transport.
TransportNames == MethodNames \ become_methods

HopsPlayContexts ==
    {PlayContext(become, become_method, <<"root">>, connection, delegate_to) :
        become \in BOOLEAN,
        become_method \in {"sudo", "su", "doas", "pbrun"},
        connection \in {"ssh", "mitogen_sudo"},
        delegate_to \in {None, hostB}}

HopsInventories ==
    {Inventory(b, Plain) :
        b \in {Plain, HostDict(None, "mitogen_sudo", None),
               HostDict(None, "docker", None)}}

InitHops ==
    /\ play_context \in HopsPlayContexts
    /\ transport \in TransportNames
    /\ ansible_ssh_timeout = DEFAULT_TIMEOUT
    /\ python_path = <<"/usr/bin/python">>
    /\ mitogen_via \in {None, hostB, <<"r", "@", "b">>}
    /\ mitogen_kind = None
    /\ inventory_hostname = hostA
    /\ host_vars \in HopsInventories
    /\ delegate_to_hostname = play_context.delegate_to
    /\ broker = None
    /\ router = None
    /\ parent = None
    /\ context = None
    /\ login_context = None
    /\ fork_context = None
    /\ home_dir = None
    /\ temp_dir = None
    /\ shutdown = {}
    /\ refs = EmptyBag
    /\ op = [name |-> "on_action_run", new_task |-> TRUE, input |-> None,
             was_connected |-> FALSE, got |-> NoReply, exc |-> "",
             msg |-> NoMsg, value |-> None]
    /\ sent = <<>>
    /\ callers = OneCaller

NextHops == GetStack

SpecHops == InitHops /\ [][NextHops]_vars

(***************************************************************************)
(* _connect entered by the callers of one instance without mutual           *)
(* exclusion.  _connect holds no lock, and the call of ContextService.get   *)
(* blocks until the reply arrives, so another caller may run between the    *)
(* test of line 668, the request of line 637 and the assignments of lines   *)
(* 644-651.  close is taken between operations.                              *)
(***************************************************************************)
Callers(n) == [at |-> [t \in 1..n |-> "out"], raced |-> FALSE]

\* The callers that are inside _connect.
InConnect == {t \in DOMAIN callers.at : callers.at[t] # "out"}

InitTasks ==
    /\ play_context \in {PlayContext(FALSE, "sudo", None, "ssh", None),
                          PlayContext(TRUE, "sudo", <<"root">>, "ssh", None)}
    /\ transport = "ssh"
    /\ ansible_ssh_timeout = DEFAULT_TIMEOUT
    /\ python_path = <<"/usr/bin/python">>
    /\ mitogen_via \in {None, hostB, hostZ}
    /\ mitogen_kind = None
    /\ inventory_hostname = hostA
    /\ host_vars = Inventory(Plain, Plain)
    /\ delegate_to_hostname = None
    /\ broker = None
    /\ router = None
    /\ parent = None
    /\ context = None
    /\ login_context = None
    /\ fork_context = None
    /\ home_dir = None
    /\ temp_dir = None
    /\ shutdown = {}
    /\ refs = EmptyBag
    /\ op = [name |-> "on_action_run", new_task |-> TRUE, input |-> None,
             was_connected |-> FALSE, got |-> NoReply, exc |-> "",
             msg |-> NoMsg, value |-> None]
    /\ sent = <<>>
    /\ callers \in {Callers(1), Callers(2)}

\* The model stops creating brokers and asking for handles at its bounds,
\* counting the requests that are under way.
TasksWithinBounds ==
    \/ context # None
    \/ /\ broker # None \/ Cardinality(shutdown) < MaxBrokers
       /\ BagCardinality(refs) + Cardinality(InConnect) < MaxHandles

\* Lines 668-669: caller t enters _connect and returns at once if connected.
EnterConnect(t) ==
    /\ callers.at[t] = "out"
    /\ TasksWithinBounds
    /\ Commit("_connect", FALSE, Frame)
    /\ callers' =
           IF connected(Frame) THEN callers
           ELSE [at |-> [callers.at EXCEPT ![t] = "checked"],
                 raced |-> callers.raced \/ InConnect # {}]
    /\ UNCHANGED <<play_context, transport, taskVars>>

\* Lines 671-673 up to the request of line 637: the broker, the stack, and
\* the ContextService.get request, whose reply caller t then waits for.
SendGet(t) ==
    /\ callers.at[t] = "checked"
    /\ Commit("_connect", FALSE,
              ConnectBuiltRequest(connect_broker(Frame), build_stack(Self)))
    /\ callers' =
           [callers EXCEPT !.at[t] =
               IF ConnectBuiltRequest(connect_broker(Frame),
                                      build_stack(Self)).exc = ""
               THEN "waiting" ELSE "out"]
    /\ UNCHANGED <<play_context, transport, taskVars>>

\* Lines 637-651: the reply arrives and caller t assigns the handle.
ReceiveReply(t) ==
    /\ callers.at[t] = "waiting"
    /\ \E dct \in GetReplies(build_stack(Self).value) :
           Commit("_connect", FALSE, GotReply(Frame, dct))
    /\ callers' = [callers EXCEPT !.at[t] = "out"]
    /\ UNCHANGED <<play_context, transport, taskVars>>

\* close, called while no caller is inside _connect.
CloseBetween ==
    /\ InConnect = {}
    /\ Close

NextTasks ==
    \/ \E t \in DOMAIN callers.at : EnterConnect(t)
    \/ \E t \in DOMAIN callers.at : SendGet(t)
    \/ \E t \in DOMAIN callers.at : ReceiveReply(t)
    \/ CloseBetween

SpecTasks == InitTasks /\ [][NextTasks]_vars

(***************************************************************************)
(* The via chain of the current task, read off the inventory without the    *)
(* resolver: the identities met by following via references from the        *)
(* target, and how the walk ends.                                           *)
(***************************************************************************)
\* The identity a via reference names: what follows its last "@".
HostPart(via) ==
    CHOOSE v \in {SubSeq(via, i, Len(via)) : i \in 1..(Len(via) + 1)} :
        /\ "@" \notin Elems(v)
        /\ Len(v) = Len(via) \/ via[Len(via) - Len(v)] = "@"

\* Whether a via reference carries a non-empty escalation user.
HasUser(via) == Len(via) - Len(HostPart(via)) > 1

Known(name) ==
    IF name \in DOMAIN host_vars THEN ~IsUndefined(host_vars[name]) ELSE FALSE

RECURSIVE ViaWalk(_, _, _, _)
ViaWalk(names, escalated, transports, via) ==
    IF ~Truthy(via)
    THEN [names |-> names, escalated |-> escalated,
          transports |-> transports, end |-> "complete"]
    ELSE IF ~Known(HostPart(via))
    THEN [names |-> names, escalated |-> escalated,
          transports |-> transports, end |-> "unknown"]
    ELSE IF HostPart(via) \in Elems(names)
    THEN [names |-> Append(names, HostPart(via)), escalated |-> escalated,
          transports |-> transports, end |-> "cycle"]
    ELSE ViaWalk(Append(names, HostPart(via)),
                 escalated + (IF HasUser(via) THEN 1 ELSE 0),
                 transports \cup
                     {Get(host_vars[HostPart(via)], "ansible_connection", "ssh")},
                 Get(host_vars[HostPart(via)], "mitogen_via", None))

Delegated == delegate_to_hostname # None

TargetName ==
    IF Delegated THEN delegate_to_hostname ELSE inventory_hostname

TargetVia ==
    IF Delegated
    THEN Get(host_vars[play_context.delegate_to], "mitogen_via", None)
    ELSE mitogen_via

TargetTransport ==
    IF Delegated THEN play_context.connection ELSE transport

\* Whether the target's own specification has become set.
TargetBecome ==
    IF Delegated
    THEN play_context.become /\ Truthy(play_context.become_user)
    ELSE play_context.become

Walk == ViaWalk(<<TargetName>>, 0, {TargetTransport}, TargetVia)

\* The number of hosts of the chain whose specification has become set.
Escalations == Walk.escalated + (IF TargetBecome THEN 1 ELSE 0)

\* Every method the chain needs has a registry entry.
MethodsRegistered ==
    /\ Walk.transports \subseteq MethodNames
    /\ Escalations > 0 => play_context.become_method \in MethodNames

Resolved == op.name = "_build_stack"

\* The stack _build_stack returned.
StackBuilt == op.value[2]

RoutingCycle ==
    /\ op.exc = "AnsibleConnectionFailure"
    /\ op.msg.fmt = "mitogen_via=%s of %s creates a cycle (%s)"

UnknownHost ==
    /\ op.exc = "AnsibleConnectionFailure"
    /\ op.msg.fmt = "mitogen_via=%s of %s specifies an unknown hostname"

(***************************************************************************)
(* C3                                                                       *)
(***************************************************************************)
\* C3 (as claimed): when the via chain revisits an identity, resolution
\* raises the routing-cycle failure and the path of its message lists the
\* identities in the order the resolver visited them, ending with the
\* repeated one.
C3_TraversalOrder ==
    (Resolved /\ Walk.end = "cycle") =>
        /\ RoutingCycle
        /\ op.msg.args[3] = join(<<" -> ">>, Walk.names)

\* C3 (amended): when the via chain revisits an identity, resolution raises
\* the routing-cycle failure and the path of its message lists the
\* identities in the reverse of the order the resolver visited them: the
\* repeated identity first, the target last, each once per visit.
C3_ReverseTraversalOrder ==
    (Resolved /\ Walk.end = "cycle") =>
        /\ RoutingCycle
        /\ op.msg.args[3] = join(<<" -> ">>, Reverse(Walk.names))

\* A cycle a via b via c via b was resolved: its path is no palindrome.
C3_Witness ==
    /\ Resolved
    /\ Walk.end = "cycle"
    /\ RoutingCycle
    /\ Len(Walk.names) = 4
    /\ Walk.names # Reverse(Walk.names)

(***************************************************************************)
(* C4                                                                       *)
(***************************************************************************)
\* C4: resolution raises the routing-cycle failure exactly when following
\* via references from the target reaches an identity already visited on
\* the chain; hosts that share an address or a transport do not count.
C4_CycleIffRevisit ==
    Resolved => (RoutingCycle <=> Walk.end = "cycle")

\* A chain of three distinct identities with the same transport, two of
\* them at the same address, was resolved to a stack.
C4_Witness ==
    /\ Resolved
    /\ op.exc = ""
    /\ Len(Walk.names) = 3
    /\ Len(StackBuilt) >= 3
    /\ StackBuilt[1].method = "ssh"
    /\ StackBuilt[2].method = "ssh"
    /\ StackBuilt[1].kwargs.hostname = StackBuilt[2].kwargs.hostname

(***************************************************************************)
(* C5                                                                       *)
(***************************************************************************)
\* C5: when a via reference on the chain names an identity the host
\* variables do not hold, or hold as an undefined value, resolution fails
\* with the unknown-host connection failure and returns no stack.
C5_UnknownHost ==
    (Resolved /\ Walk.end = "unknown") =>
        /\ UnknownHost
        /\ op.value = None

\* The unknown reference was met on a via host, not on the target.
C5_Witness ==
    /\ Resolved
    /\ Walk.end = "unknown"
    /\ Len(Walk.names) >= 2
    /\ UnknownHost

(***************************************************************************)
(* C6                                                                       *)
(***************************************************************************)
\* C6 (as claimed): a chain without a cycle resolves to a stack of as many
\* hops as the chain has hosts, plus one if the target has become set.
C6_HopsPlusTargetBecome ==
    (Resolved /\ Walk.end = "complete" /\ MethodsRegistered) =>
        /\ op.exc = ""
        /\ Len(StackBuilt) = Len(Walk.names) + (IF TargetBecome THEN 1 ELSE 0)

\* C6 (amended): a chain without a cycle, unknown host or unregistered
\* method resolves to a stack of as many hops as the chain has hosts, plus
\* one for every host of the chain that has become set: the target, and
\* each via host whose reference carries an escalation user.
C6_HopsPlusEscalations ==
    (Resolved /\ Walk.end = "complete" /\ MethodsRegistered) =>
        /\ op.exc = ""
        /\ Len(StackBuilt) = Len(Walk.names) + Escalations

\* A chain of three hosts, one reached as an escalation user, with become
\* set on the target, was resolved.
C6_Witness ==
    /\ Resolved
    /\ Walk.end = "complete"
    /\ op.exc = ""
    /\ Len(Walk.names) = 3
    /\ Walk.escalated = 1
    /\ TargetBecome
    /\ Len(StackBuilt) = 5

(***************************************************************************)
(* The life cycle: what the operations send and leave behind.               *)
(***************************************************************************)
\* The operations that need a handle and acquire one through _connect.
ConnectingOps ==
    {"homedir", "get_temp_dir", "call_async", "call", "create_fork_child",
     "exec_command", "fetch_file", "put_file"}

\* The positions of the ContextService.get requests in a request sequence.
GetsIn(requests) ==
    {i \in DOMAIN requests : requests[i].name = "ContextService.get"}

\* The requests that go to the multiplexer through self.parent.
ParentRequests ==
    {"ContextService.get", "ContextService.put", "FileService.register"}

PutOf(handle) ==
    Request(parent, "ContextService.put", <<"context", handle>>)

(***************************************************************************)
(* C1                                                                       *)
(***************************************************************************)
\* C1: on a Connection that holds a handle and a live broker,
\* close(new_task=True) sends one ContextService.put for the handle, leaves
\* the Connection not connected and the broker alive; every close() with
\* new_task false leaves broker and router None, the broker shut down; and a
\* close that directly follows a close() raises nothing and sends nothing.
C1_CloseSequence ==
    [][/\ (/\ op'.name = "close"
           /\ op'.new_task
           /\ context # None
           /\ broker # None) =>
              /\ sent' = <<PutOf(context)>>
              /\ context' = None
              /\ broker' = broker
              /\ router' = router
              /\ shutdown' = shutdown
              /\ BrokerOf(broker') \notin shutdown'
              /\ op'.exc = ""
       /\ (op'.name = "close" /\ ~op'.new_task) =>
              /\ broker' = None
              /\ router' = None
              /\ context' = None
              /\ broker # None => BrokerOf(broker) \in shutdown'
              /\ op'.exc = ""
       /\ (op.name = "close" /\ ~op.new_task /\ op'.name = "close") =>
              /\ sent' = <<>>
              /\ op'.exc = ""
      ]_vars

\* A close() that found nothing to release on a Connection whose broker an
\* earlier close had shut down.
C1_Witness ==
    /\ op.name = "close"
    /\ ~op.new_task
    /\ op.exc = ""
    /\ sent = <<>>
    /\ broker = None
    /\ parent # None
    /\ BrokerOf(parent) \in shutdown

(***************************************************************************)
(* C2                                                                       *)
(***************************************************************************)
\* C2: on_action_run, in any state, sends one ContextService.put for the
\* handle held, if any, leaves the Connection not connected and leaves the
\* broker, router and parent as they were; so every get a later _connect
\* sends carries the stack of the current task's fields, and a handle that
\* is held is the one the service gave for that stack.
C2_OnActionRunReleases ==
    /\ [](context # None =>
            /\ build_stack(Self).kind = "return"
            /\ context = ContextFor(build_stack(Self).value))
    /\ [][/\ op'.name = "on_action_run" =>
                /\ sent' = IF context # None THEN <<PutOf(context)>> ELSE <<>>
                /\ context' = None
                /\ broker' = broker
                /\ router' = router
                /\ parent' = parent
                /\ shutdown' = shutdown
          /\ op'.name \in ConnectingOps =>
                \A i \in GetsIn(sent') :
                    /\ build_stack(Self).kind = "return"
                    /\ sent'[i].args = <<"stack", build_stack(Self).value>>
         ]_vars

\* on_action_run released a handle and left the broker alive.
C2_Witness ==
    /\ op.name = "on_action_run"
    /\ Len(sent) = 1
    /\ sent[1].name = "ContextService.put"
    /\ context = None
    /\ broker # None
    /\ BrokerOf(broker) \notin shutdown

(***************************************************************************)
(* C7                                                                       *)
(***************************************************************************)
\* C7: when the service answers ContextService.get with a failure, the
\* operation raises AnsibleModuleError if the failed method is su, sudo or
\* doas and AnsibleConnectionFailure otherwise, and the Connection stays
\* not connected.
C7_FailureClassified ==
    Truthy(op.got.msg) =>
        /\ op.got.method_name \in {"su", "sudo", "doas"} =>
               op.exc = "AnsibleModuleError"
        /\ op.got.method_name \notin {"su", "sudo", "doas"} =>
               op.exc = "AnsibleConnectionFailure"
        /\ context = None
        /\ login_context = None
        /\ fork_context = None

\* The service reported the failure of a sudo hop.
C7_Witness ==
    /\ Truthy(op.got.msg)
    /\ op.got.method_name = "sudo"
    /\ op.exc = "AnsibleModuleError"
    /\ context = None

(***************************************************************************)
(* C8                                                                       *)
(***************************************************************************)
\* An operation's _connect failed in stack resolution.
ResolutionFailed ==
    /\ op.name \in ConnectingOps
    /\ RoutingCycle \/ UnknownHost \/ op.exc = "KeyError"

\* C8: when stack resolution fails during _connect, the operation has sent
\* no ContextService.get and no handle is held afterwards.
C8_NoGetOnResolutionFailure ==
    ResolutionFailed =>
        /\ GetsIn(sent) = {}
        /\ context = None
        /\ login_context = None
        /\ fork_context = None
        /\ refs = EmptyBag

\* A routing cycle was raised by a _connect that had created the broker.
C8_Witness ==
    /\ ResolutionFailed
    /\ RoutingCycle
    /\ ~op.was_connected
    /\ broker # None

(***************************************************************************)
(* C9                                                                       *)
(***************************************************************************)
\* C9: an operation invoked on a Connection that is not connected acquires
\* a handle first: it sends nothing before its ContextService.get, it sends
\* nothing at all only when resolution failed or the local file is no
\* regular file, and it sends nothing through a parent whose broker was shut
\* down.
C9_HandleFirst ==
    (op.name \in ConnectingOps /\ ~op.was_connected) =>
        /\ sent # <<>> => sent[1].name = "ContextService.get"
        /\ sent = <<>> =>
               op.exc \in {"AnsibleConnectionFailure", "KeyError", "IOError"}
        /\ \A i \in DOMAIN sent :
               sent[i].name \in ParentRequests =>
                   BrokerOf(sent[i].dest) \notin shutdown

(***************************************************************************)
(* C10                                                                      *)
(***************************************************************************)
\* C10 (as claimed): a Connection creates its broker exactly once, whatever
\* the sequence of operations.
C10_OneBrokerPerInstance ==
    BrokersMade(Frame) \subseteq {1}

\* C10 (amended): no broker, router or parent exists after construction; a
\* broker is created only by a _connect that finds none, together with its
\* router and parent; a _connect that finds a live broker keeps it; only
\* close() with new_task false removes it, after which the next _connect
\* creates another; and a _connect on a Connection that holds a handle
\* creates no broker, sends no ContextService.get and keeps the handle.
C10_LazyOncePerBrokerLifetime ==
    /\ broker = None /\ router = None /\ parent = None
    /\ [][/\ (broker' # broker /\ broker' # None) =>
                /\ broker = None
                /\ context = None
                /\ op'.name \in ConnectingOps
                /\ BrokerOf(broker') \notin BrokersMade(Frame)
                /\ router' = <<"Router", BrokerOf(broker')>>
                /\ parent' = <<"Parent", BrokerOf(broker')>>
          /\ (broker # None /\ op'.name \in ConnectingOps) =>
                /\ broker' = broker
                /\ router' = router
                /\ parent' = parent
          /\ (broker' # broker /\ broker' = None) =>
                /\ op'.name = "close"
                /\ ~op'.new_task
                /\ BrokerOf(broker) \in shutdown'
          /\ (context # None /\ op'.name \in ConnectingOps) =>
                /\ GetsIn(sent') = {}
                /\ context' = context
                /\ login_context' = login_context
                /\ fork_context' = fork_context
                /\ refs' = refs
          /\ (context # None /\ op'.name \in {"homedir", "get_temp_dir"}) =>
                sent' = <<>>
         ]_vars

\* A second broker was created after the first was shut down, and a handle
\* was acquired through it.
C10_Witness ==
    /\ broker = <<"Broker", 2>>
    /\ shutdown = {1}
    /\ context # None
    /\ op.name \in ConnectingOps

(***************************************************************************)
(* C11                                                                      *)
(***************************************************************************)
\* C11: close, with either value of new_task, on a Connection that holds no
\* handle (it never connected, its connect failed, or the handle was
\* released) sends no request, raises nothing and leaves the service's
\* references as they were.
C11_CloseWithoutHandle ==
    [][(op'.name = "close" /\ context = None) =>
           /\ sent' = <<>>
           /\ op'.exc = ""
           /\ refs' = refs
           /\ context' = None
      ]_vars

\* close(new_task=True) found no handle on a Connection whose broker is
\* alive: the handle was released before, or the connect had failed.
C11_Witness ==
    /\ op.name = "close"
    /\ op.new_task
    /\ ~op.was_connected
    /\ op.exc = ""
    /\ sent = <<>>
    /\ broker # None

(***************************************************************************)
(* File transfer policy.                                                    *)
(***************************************************************************)
\* The local file the last put_file was called on.
PutFileOf == op.input[2]

\* The positions of the calls of a target function in a request sequence.
CallsOf(requests, func) ==
    {i \in DOMAIN requests :
        /\ requests[i].name \in {"call_async", "call_no_reply"}
        /\ requests[i].args[1] = func}

\* The positions of the FileService.register requests.
RegistersIn(requests) ==
    {i \in DOMAIN requests : requests[i].name = "FileService.register"}

\* The operation sent one write_path call that waits for no reply and
\* carries size bytes, and neither registered nor transferred the file.
SentInline(size) ==
    /\ RegistersIn(sent) = {}
    /\ CallsOf(sent, "transfer_file") = {}
    /\ Cardinality(CallsOf(sent, "write_path")) = 1
    /\ \A i \in CallsOf(sent, "write_path") :
           /\ sent[i].name = "call_no_reply"
           /\ sent[i].args[2].data = <<"Blob", size>>

\* The operation registered the file, then called transfer_file and waited
\* for its reply, and sent no inline data.
SentStreamed ==
    /\ CallsOf(sent, "write_path") = {}
    /\ Cardinality(RegistersIn(sent)) = 1
    /\ Cardinality(CallsOf(sent, "transfer_file")) = 1
    /\ \A i \in RegistersIn(sent), j \in CallsOf(sent, "transfer_file") :
           /\ i < j
           /\ sent[j].name = "call_async"

(***************************************************************************)
(* C12                                                                      *)
(***************************************************************************)
\* C12: put_file of a regular file whose size does not change takes the
\* inline path when the size is at most SMALL_FILE_LIMIT, the limit
\* included, and the streamed path when it is larger: the other path's
\* requests are never sent, and a put_file that succeeds has sent exactly
\* the requests of its path.
C12_ThresholdChoosesPath ==
    (/\ op.name = "put_file"
     /\ PutFileOf.is_reg
     /\ PutFileOf.size_at_read = PutFileOf.st_size) =>
        IF PutFileOf.st_size <= SMALL_FILE_LIMIT
        THEN /\ RegistersIn(sent) = {}
             /\ CallsOf(sent, "transfer_file") = {}
             /\ op.exc = "" => SentInline(PutFileOf.st_size)
        ELSE /\ CallsOf(sent, "write_path") = {}
             /\ op.exc = "" => SentStreamed

\* A file of exactly SMALL_FILE_LIMIT bytes was sent inline.
C12_Witness ==
    /\ op.name = "put_file"
    /\ PutFileOf.is_reg
    /\ PutFileOf.st_size = SMALL_FILE_LIMIT
    /\ PutFileOf.size_at_read = SMALL_FILE_LIMIT
    /\ op.exc = ""
    /\ SentInline(SMALL_FILE_LIMIT)

(***************************************************************************)
(* C13                                                                      *)
(***************************************************************************)
\* C13: when the number of bytes put_file reads differs from the size
\* os.stat gave, put_file sends no inline data and, if it succeeds, has
\* taken the streamed path; inline data that is sent is as long as the size
\* os.stat gave.
C13_ChangedFileIsStreamed ==
    (op.name = "put_file" /\ PutFileOf.is_reg) =>
        /\ \A i \in CallsOf(sent, "write_path") :
               sent[i].args[2].data = <<"Blob", PutFileOf.st_size>>
        /\ PutFileOf.size_at_read # PutFileOf.st_size =>
               /\ CallsOf(sent, "write_path") = {}
               /\ op.exc = "" => SentStreamed

\* A file of SMALL_FILE_LIMIT bytes at os.stat grew before the read, and
\* was streamed.
C13_Witness ==
    /\ op.name = "put_file"
    /\ PutFileOf.is_reg
    /\ PutFileOf.st_size = SMALL_FILE_LIMIT
    /\ PutFileOf.size_at_read > PutFileOf.st_size
    /\ op.exc = ""
    /\ SentStreamed

(***************************************************************************)
(* C14                                                                      *)
(***************************************************************************)
\* The input bytes and the sudoable flag the last exec_command was given.
ExecInData == op.input[2]
ExecSudoable == op.input[3]

\* C14: every exec_command call sent to the target asks for pseudo-terminal
\* emulation exactly when the input bytes are empty and sudoable is set,
\* and the call carries the input bytes it was given.
C14_TtyIffNoInputAndSudoable ==
    op.name = "exec_command" =>
        \A i \in CallsOf(sent, "exec_command") :
            /\ sent[i].args[2].in_data = ExecInData
            /\ sent[i].args[2].emulate_tty = (ExecInData = <<>> /\ ExecSudoable)

\* exec_command with input bytes and sudoable set was sent without
\* pseudo-terminal emulation.
C14_Witness ==
    /\ op.name = "exec_command"
    /\ ExecInData # <<>>
    /\ ExecSudoable
    /\ op.exc = ""
    /\ \E i \in CallsOf(sent, "exec_command") : ~sent[i].args[2].emulate_tty

(***************************************************************************)
(* C18                                                                      *)
(***************************************************************************)
\* The operation acquired a handle: it began without one and ended with one.
Acquired ==
    /\ op.name \in ConnectingOps
    /\ ~op.was_connected
    /\ context # None

\* The stack ends in an escalation hop: an su, sudo or doas hop that follows
\* the hop of a transport.
EndsInEscalation(stack) ==
    /\ Len(stack) > 1
    /\ stack[Len(stack)].method \in {"su", "sudo", "doas"}

\* C18 (as claimed): after every successful acquire, the login handle is the
\* separate handle the service returned as "via" exactly when the stack that
\* was sent ends in an escalation hop, and is the target handle otherwise.
C18_LoginHandleFollowsStack ==
    Acquired =>
        \A g \in GetsIn(sent) :
            IF EndsInEscalation(sent[g].args[2])
            THEN /\ login_context = op.got.via
                 /\ login_context # context
            ELSE login_context = context

(***************************************************************************)
(* C19                                                                      *)
(***************************************************************************)
\* C19: put_file on a local path that is not a regular file raises IOError,
\* sends no request and leaves every field of the Connection as it was: no
\* broker is created, no handle acquired.
C19_NonRegularFileRejectedFirst ==
    [][(op'.name = "put_file" /\ ~op'.input[2].is_reg) =>
           /\ op'.exc = "IOError"
           /\ sent' = <<>>
           /\ UNCHANGED <<broker, router, parent, context, login_context,
                          fork_context, home_dir, temp_dir, shutdown, refs>>]_vars

\* put_file was refused on a Connection that has a task but never
\* connected, and it still has no broker.
C19_Witness ==
    /\ op.name = "put_file"
    /\ ~PutFileOf.is_reg
    /\ op.exc = "IOError"
    /\ inventory_hostname # None
    /\ broker = None
    /\ context = None
    /\ sent = <<>>

(***************************************************************************)
(* C15                                                                      *)
(***************************************************************************)
\* The fields config_from_hostvars sets from its become_user argument.
BecomeFields == {"become", "become_user", "become_pass"}

\* The escalation users config_from_hostvars is compared for: none, the
\* empty string, a name.
BecomeUsers == {None, <<>>, <<"root">>}

\* The target's specification derived from the play context.
FromPlayContext == config_from_play_context(TargetTransport, TargetName, Self)

\* The same derived through config_from_hostvars with no host variables.
FromEmptyHostVars(become_user) ==
    config_from_hostvars(TargetTransport, TargetName, Self, <<>>, become_user)

KeptFields ==
    {"transport", "inventory_name", "become_method", "ssh_executable",
     "timeout", "ansible_ssh_timeout", "become_exe"}

\* The fields config_from_hostvars leaves empty when the host has no
\* variable for them.
ClearedFields ==
    {"remote_user", "password", "port", "python_path", "private_key_file",
     "mitogen_via", "mitogen_kind"}

\* The task is delegated to a host that has no host variables.
DelegatedToBareHost ==
    /\ Resolved
    /\ Delegated
    /\ DOMAIN host_vars[delegate_to_hostname] = {}

MethodsNeeded ==
    Walk.transports \cup
        (IF Escalations > 0 THEN {play_context.become_method} ELSE {})

\* C20: when the transport of the target or of a via host on the chain, or
\* the escalation method of a host that has become set, is not in the
\* registry, resolution fails and returns no stack; when the chain itself
\* resolves, the failure is the KeyError of the registry lookup, for a name
\* the chain needs and the registry does not hold.
C20_UnregisteredMethodFails ==
    (Resolved /\ ~(MethodsNeeded \subseteq MethodNames)) =>
        /\ op.exc # ""
        /\ op.value = None
        /\ Walk.end = "complete" =>
               /\ op.exc = "KeyError"
               /\ op.msg.fmt \in MethodsNeeded \ MethodNames

\* The lookup failed for the transport of a via host, the target's own
\* transport being registered.
C20_Witness ==
    /\ Resolved
    /\ Walk.end = "complete"
    /\ Len(Walk.names) >= 2
    /\ TargetTransport \in MethodNames
    /\ op.exc = "KeyError"
    /\ op.msg.fmt = "telnet"
    /\ op.value = None

(***************************************************************************)
(* C16                                                                      *)
(***************************************************************************)
\* The method the service is asked for by the registry entry of a
\* transport.
WireMethod(name) ==
    CASE name = "machinectl" -> "setns"
      [] name = "mitogen_su" -> "su"
      [] name = "mitogen_sudo" -> "sudo"
      [] name = "mitogen_doas" -> "doas"
      [] OTHER -> name

\* Whether a hop carries enable_lru, set.
HasLru(hop) ==
    IF "enable_lru" \in DOMAIN hop THEN hop.enable_lru ELSE FALSE

\* The last hop of the stack that was built, and the one before it.
LastHop == StackBuilt[Len(StackBuilt)]
HopBeforeLast == StackBuilt[Len(StackBuilt) - 1]

\* C16: when the target's specification has become set and become_method
\* "sudo", the stack ends in a sudo hop with enable_lru true, and the hop
\* before it is the hop of the target's transport, without an enable_lru
\* key, whichever transport of the registry that is.
C16_SudoHopLast ==
    (/\ Resolved
     /\ Walk.end = "complete"
     /\ TargetTransport \in TransportNames
     /\ Walk.transports \subseteq MethodNames
     /\ TargetBecome
     /\ play_context.become_method = "sudo") =>
        /\ op.exc = ""
        /\ Len(StackBuilt) >= 2
        /\ LastHop.method = "sudo"
        /\ "enable_lru" \in DOMAIN LastHop
        /\ LastHop.enable_lru = TRUE
        /\ LastHop.kwargs.username = play_context.become_user
        /\ HopBeforeLast.method = WireMethod(TargetTransport)
        /\ "enable_lru" \notin DOMAIN HopBeforeLast

\* The sudo escalation hop follows the hop of a first-class sudo transport.
C16_Witness ==
    /\ Resolved
    /\ op.exc = ""
    /\ ~Delegated
    /\ transport = "mitogen_sudo"
    /\ play_context.become
    /\ play_context.become_method = "sudo"
    /\ Len(StackBuilt) >= 2
    /\ HasLru(LastHop)
    /\ HopBeforeLast.method = "sudo"
    /\ ~HasLru(HopBeforeLast)

(***************************************************************************)
(* C17                                                                      *)
(***************************************************************************)
\* C17 (as claimed): a hop carries enable_lru true exactly when its method
\* is su, sudo or doas, as an escalation step and as a first-class
\* transport alike.
C17_LruIffEscalationMethod ==
    /\ Resolved =>
        \A name \in MethodNames :
            HasLru(CONNECTION_METHOD(name, target_config(Self))) <=>
                CONNECTION_METHOD(name, target_config(Self)).method
                    \in {"su", "sudo", "doas"}
    /\ (Resolved /\ op.exc = "") =>
        \A i \in DOMAIN StackBuilt :
            HasLru(StackBuilt[i]) <=>
                StackBuilt[i].method \in {"su", "sudo", "doas"}

\* C17 (amended): enable_lru is set exactly by the registry entries su, sudo
\* and doas; the entries mitogen_su, mitogen_sudo and mitogen_doas, whose
\* method is also su, sudo or doas, and the entries of the base transports
\* do not have the key.  In a resolved stack the hops with enable_lru are
\* the escalation steps: as many as the chain has hosts with become set,
\* each with the escalation method and never the first hop.
C17_LruOnEscalationStepsOnly ==
    /\ Resolved =>
        \A name \in MethodNames :
            /\ "enable_lru" \in DOMAIN CONNECTION_METHOD(name, target_config(Self))
                   <=> name \in {"su", "sudo", "doas"}
            /\ HasLru(CONNECTION_METHOD(name, target_config(Self)))
                   <=> name \in {"su", "sudo", "doas"}
    /\ (Resolved /\ op.exc = "") =>
        /\ Cardinality({i \in DOMAIN StackBuilt : HasLru(StackBuilt[i])})
               = Escalations
        /\ \A i \in DOMAIN StackBuilt :
               /\ "enable_lru" \in DOMAIN StackBuilt[i] => HasLru(StackBuilt[i])
               /\ HasLru(StackBuilt[i]) =>
                      /\ i > 1
                      /\ StackBuilt[i].method = play_context.become_method

\* A stack holds a sudo hop without enable_lru, of the first-class
\* transport of a via host, and a sudo hop with it, the target's escalation
\* step.
C17_Witness ==
    /\ Resolved
    /\ op.exc = ""
    /\ \E i \in DOMAIN StackBuilt :
           /\ StackBuilt[i].method = "sudo"
           /\ "enable_lru" \notin DOMAIN StackBuilt[i]
    /\ \E j \in DOMAIN StackBuilt :
           /\ StackBuilt[j].method = "sudo"
           /\ HasLru(StackBuilt[j])

(***************************************************************************)
(* C21                                                                      *)
(***************************************************************************)
\* The escalation user a via reference carries: what precedes its last "@".
UserPart(via) ==
    IF HasUser(via)
    THEN SubSeq(via, 1, Len(via) - Len(HostPart(via)) - 1)
    ELSE None

\* The hosts a chain of via references leads through, nearest first, each
\* with its transport, its address and the user it is escalated to.
RECURSIVE ViaHosts(_, _)
ViaHosts(seen, via) ==
    IF ~Truthy(via) THEN <<>>
    ELSE IF ~Known(HostPart(via)) \/ HostPart(via) \in seen THEN <<>>
    ELSE <<[name |-> HostPart(via),
            transport |->
                Get(host_vars[HostPart(via)], "ansible_connection", "ssh"),
            address |->
                Get(host_vars[HostPart(via)], "ansible_host", HostPart(via)),
            escalated |-> HasUser(via),
            user |-> UserPart(via)]>>
         \o ViaHosts(seen \cup {HostPart(via)},
                     Get(host_vars[HostPart(via)], "mitogen_via", None))

\* The target, as a host of the chain.
TargetHost ==
    [name |-> TargetName,
     transport |-> TargetTransport,
     address |-> IF Delegated
                 THEN Get(host_vars[delegate_to_hostname], "ansible_host",
                          delegate_to_hostname)
                 ELSE play_context.remote_addr,
     escalated |-> TargetBecome,
     user |-> IF TargetBecome THEN play_context.become_user ELSE None]

\* The chain target via H1 via ... via Hn, target first.
Chain == <<TargetHost>> \o ViaHosts({TargetName}, TargetVia)

\* The transports whose hop names the address of the host.
AddressedTransports ==
    {"ssh", "docker", "jail", "lxc", "lxd", "machinectl", "setns"}

\* What tells one hop from another: its method, whether it is an
\* escalation step, and the address it goes to or the user it becomes.
HopMark(hop) ==
    IF HasLru(hop) THEN <<hop.method, "as", hop.kwargs.username>>
    ELSE IF "hostname" \in DOMAIN hop.kwargs
    THEN <<hop.method, "to", hop.kwargs.hostname>>
    ELSE IF "container" \in DOMAIN hop.kwargs
    THEN <<hop.method, "to", hop.kwargs.container>>
    ELSE <<hop.method, "to", None>>

\* The marks of the hops of one host: its transport hop, then its
\* escalation hop if it has one.
MarksOfHost(h) ==
    <<(<<WireMethod(h.transport), "to",
         IF h.transport \in AddressedTransports THEN h.address ELSE None>>)>>
    \o (IF h.escalated
        THEN <<(<<play_context.become_method, "as", h.user>>)>>
        ELSE <<>>)

\* The marks of the hops of the hosts hosts[1..n], those of hosts[n] first.
RECURSIVE MarksOutermostFirst(_, _)
MarksOutermostFirst(hosts, n) ==
    IF n = 0 THEN <<>>
    ELSE MarksOfHost(hosts[n]) \o MarksOutermostFirst(hosts, n - 1)

\* C21: a resolved stack holds the hops of the hosts of the chain
\* outermost first: those of the last via host first and those of the
\* target last, and for each host its transport hop followed at once by its
\* escalation hop, when it has one.
C21_OutermostFirst ==
    (Resolved /\ op.exc = "") =>
        /\ Walk.end = "complete"
        /\ Len(Chain) = Len(Walk.names)
        /\ [i \in DOMAIN StackBuilt |-> HopMark(StackBuilt[i])]
               = MarksOutermostFirst(Chain, Len(Chain))

\* A chain of three hosts at three addresses, the middle one reached as an
\* escalation user and the target escalated, was resolved to five hops.
C21_Witness ==
    /\ Resolved
    /\ op.exc = ""
    /\ Len(Chain) = 3
    /\ Chain[2].escalated
    /\ TargetBecome
    /\ Len(StackBuilt) = 5
    /\ HopMark(StackBuilt[1]) = <<"ssh", "to", Chain[3].address>>
    /\ HopMark(StackBuilt[2]) = <<"ssh", "to", Chain[2].address>>
    /\ HasLru(StackBuilt[3])
    /\ HopMark(StackBuilt[4])[3] = Chain[1].address
    /\ HasLru(StackBuilt[5])
    /\ Chain[3].address # Chain[2].address
    /\ Chain[2].address # Chain[1].address

(***************************************************************************)
(* C22                                                                      *)
(***************************************************************************)
\* The become passwords a play context may carry.
BecomePasswords == {None, <<"pw">>, <<"other-pw">>}

\* The Connection with another become password in its play context.
SelfWithBecomePass(become_pass) ==
    [Self EXCEPT !.play_context.become_pass = become_pass]

\* The hosts of the inventory that have variables.
KnownHosts == {h \in DOMAIN host_vars : ~IsUndefined(host_vars[h])}

\* The hops of the stack that are escalation steps of a specification
\* derived from host variables: all of them for a delegated target, all but
\* the target's own, the last hop, for a direct one.
HostVarsEscalations ==
    {i \in DOMAIN StackBuilt :
        /\ HasLru(StackBuilt[i])
        /\ Delegated \/ ~TargetBecome \/ i < Len(StackBuilt)}

\* C22: the play context's become password never reaches a specification
\* derived from host variables: whatever it is, config_from_hostvars gives
\* the same specification, with become_pass None, become set exactly when
\* the escalation user is non-empty and become_user that user; every
\* escalation hop of a via host and of a delegated target has password
\* None, and the stack of a delegated task does not depend on the password.
C22_BecomePassNeverFlows ==
    Resolved =>
        /\ \A h \in KnownHosts, become_user \in BecomeUsers :
               /\ \A become_pass \in BecomePasswords :
                      config_from_hostvars("ssh", h,
                                           SelfWithBecomePass(become_pass),
                                           host_vars[h], become_user)
                          = config_from_hostvars("ssh", h, Self, host_vars[h],
                                                 become_user)
               /\ config_from_hostvars("ssh", h, Self, host_vars[h],
                                       become_user).become_pass = None
               /\ config_from_hostvars("ssh", h, Self, host_vars[h],
                                       become_user).become
                      = (become_user \notin {None, <<>>})
               /\ config_from_hostvars("ssh", h, Self, host_vars[h],
                                       become_user).become_user = become_user
        /\ op.exc = "" =>
               \A i \in HostVarsEscalations :
                   StackBuilt[i].kwargs.password = None
        /\ Delegated =>
               \A become_pass \in BecomePasswords :
                   build_stack(SelfWithBecomePass(become_pass))
                       = build_stack(Self)

\* The play context has a become password; the escalation hop of a via
\* host carries none, while the direct target's own escalation hop, the
\* last one, carries it.
C22_Witness ==
    /\ Resolved
    /\ op.exc = ""
    /\ ~Delegated
    /\ play_context.become_pass # None
    /\ \E i \in HostVarsEscalations :
           /\ i < Len(StackBuilt)
           /\ StackBuilt[i].kwargs.password = None
    /\ HasLru(LastHop)
    /\ LastHop.kwargs.password = <<"Secret", play_context.become_pass>>

(***************************************************************************)
(* C23                                                                      *)
(***************************************************************************)
\* The number of specifications the resolver visits for the current task.
SpecsVisited == stack_from_config_calls(Self, target_config(Self), <<>>)

\* The resolver failed at a registry lookup.
UnknownMethod ==
    /\ op.exc = "KeyError"
    /\ op.msg.fmt \notin MethodNames

\* The resolver returned a stack.
GaveStack ==
    /\ op.exc = ""
    /\ op.value # None

\* C23: whatever the via references of the inventory, resolution visits as
\* many specifications as the walk of the via references has steps, at
\* most one more than the inventory has identities, and ends in exactly one
\* of a stack, the routing-cycle failure, the unknown-host failure and the
\* error of an unknown method.
C23_ResolutionTerminates ==
    Resolved =>
        /\ SpecsVisited = Len(Walk.names)
        /\ SpecsVisited <= Cardinality(DOMAIN host_vars) + 1
        /\ Cardinality({outcome \in {"stack", "cycle", "unknown host",
                                     "unknown method"} :
               CASE outcome = "stack" -> GaveStack
                 [] outcome = "cycle" -> RoutingCycle
                 [] outcome = "unknown host" -> UnknownHost
                 [] outcome = "unknown method" -> UnknownMethod}) = 1
        /\ ~GaveStack => op.value = None

\* A cycle through every identity of the inventory: the resolver visited
\* one specification more than there are identities and raised the
\* routing-cycle failure.
C23_Witness ==
    /\ Resolved
    /\ RoutingCycle
    /\ Walk.end = "cycle"
    /\ SpecsVisited = Cardinality(DOMAIN host_vars) + 1

(***************************************************************************)
(* C24                                                                      *)
(***************************************************************************)
\* The service counts a reference that no handle of the Connection stands
\* for: a handle that was returned and overwritten, which no close will put.
HandleLost ==
    BagCardinality(refs) > (IF context # None THEN 1 ELSE 0)

\* C24: a handle is lost only if a caller passed the connected test while
\* another caller was inside _connect; with one caller per instance that
\* never happens and no handle is ever lost.
C24_HandleLostOnlyWhenInterleaved ==
    /\ HandleLost => callers.raced
    /\ Len(callers.at) = 1 => ~callers.raced /\ ~HandleLost

\* Two callers were inside _connect at once, both got a handle, and after
\* close the service still counts a reference although the Connection holds
\* no handle.
C24_Witness ==
    /\ Len(callers.at) = 2
    /\ callers.raced
    /\ InConnect = {}
    /\ op.name = "close"
    /\ op.exc = ""
    /\ context = None
    /\ BagCardinality(refs) = 1

(***************************************************************************)
(* C25                                                                      *)
(***************************************************************************)
\* The positions of the ContextService.put requests in a request sequence.
PutsIn(requests) ==
    {i \in DOMAIN requests : requests[i].name = "ContextService.put"}

\* The references the service counts for a Connection that holds handle.
HeldBy(handle) ==
    IF handle # None THEN SetToBag({handle}) ELSE EmptyBag

\* C25: with one caller, the service counts exactly one reference while a
\* handle is held, for that handle, and none otherwise.  No operation sends
\* a ContextService.get while a handle is held, and none sends two; a
\* successful get makes its handle the one held; a put is sent only while a
\* handle is held, at most one per operation, for the handle held, the one
\* the most recent successful get returned, and it drops that reference;
\* close and on_action_run, when they complete, leave no handle and no
\* reference.
C25_GetsAndPutsPaired ==
    /\ [](refs = HeldBy(context))
    /\ [][/\ context # None => GetsIn(sent') = {}
          /\ Cardinality(GetsIn(sent')) <= 1
          /\ (GetsIn(sent') # {} /\ context' # None) =>
                /\ context' = op'.got.context
                /\ refs' = refs (+) SetToBag({context'})
          /\ GetsIn(sent') = {} => context' \in {context, None}
          /\ PutsIn(sent') # {} =>
                /\ context # None
                /\ op'.name \in {"close", "on_action_run"}
                /\ Cardinality(PutsIn(sent')) = 1
                /\ \A i \in PutsIn(sent') : sent'[i] = PutOf(context)
                /\ BagIn(context, refs)
                /\ refs' = refs (-) SetToBag({context})
          /\ (op'.name \in {"close", "on_action_run"} /\ op'.exc = "") =>
                /\ context' = None
                /\ refs' = EmptyBag
                /\ context # None => PutsIn(sent') # {}
         ]_vars

\* The handle acquired through the Connection's second broker was put by a
\* close, and the service counts no reference.
C25_Witness ==
    /\ op.name = "close"
    /\ op.new_task
    /\ op.was_connected
    /\ op.exc = ""
    /\ Cardinality(PutsIn(sent)) = 1
    /\ broker = <<"Broker", 2>>
    /\ shutdown = {1}
    /\ context = None
    /\ refs = EmptyBag

(***************************************************************************)
(* C26                                                                      *)
(***************************************************************************)
\* A handle is held only with a broker, router and parent, the broker alive
\* and the parent bound to it.
HandleHasBroker ==
    context # None =>
        /\ broker # None
        /\ router # None
        /\ parent # None
        /\ BrokerOf(broker) \notin shutdown
        /\ BrokerOf(parent) = BrokerOf(broker)

\* C26 (as claimed): holding a handle implies a live broker, router and
\* parent; context, login_context and fork_context are all set or all None;
\* and no step takes the broker away while leaving a handle held.
C26_HandleFieldsConsistent ==
    /\ [](HandleHasBroker)
    /\ [](\/ context = None /\ login_context = None /\ fork_context = None
          \/ context # None /\ login_context # None /\ fork_context # None)
    /\ [][(broker # None /\ broker' = None) =>
              /\ op'.name = "close"
              /\ context' = None]_vars

====
